---- MODULE Spec2Model ----
(***************************************************************************)
(* Emergency-room scheduling core: MaxHeap (core/heap.py), PriorityQueue   *)
(* (core/queue.py), WaitingRoomService (services/waiting_room_service.py), *)
(* the lab queue of ResourceService, the patient / room / provider         *)
(* handlers of main.py, TreatmentHistoryService                            *)
(* (services/treatment_history_service.py), the queries of Graph          *)
(* (core/graph.py), TriageService (services/triage_service.py) and         *)
(* HashTable (core/hash_table.py).                                         *)
(*                                                                         *)
(* Python lists are modelled as sequences; the code's 0-based indices are  *)
(* kept and read through At(s, i) == s[i + 1].  Priorities are floats in   *)
(* the code; only their order matters to the operations below, so they are *)
(* drawn from small integer ranges.                                        *)
(***************************************************************************)
EXTENDS Integers, Sequences, FiniteSets, TLC

VARIABLES
    heap,       \* MaxHeap.heap
    heapOp,     \* the MaxHeap operation called last and what it returned
    labQueue,   \* ResourceService.lab_queue.queue
    labOp,      \* the lab-queue operation called last and what it returned
    wrQueue,    \* WaitingRoomService.waiting_queue.queue
    wrCache,    \* WaitingRoomService._queue_cache, in insertion order
    wrOp,       \* the waiting-room operation called last and its outcome
    returned,   \* the ids get_next_patient has returned since the last add
    patients,   \* the patients table
    rooms,      \* the rooms table
    providers,  \* the providers table
    resourceGraph, \* ResourceService.resource_graph.adjacency_list
    erOp,       \* the HTTP handler called last, its arguments and status code
    history_stacks, \* TreatmentHistoryService.history_stacks
    treatments, \* the treatment_history table, in timestamp order
    thOp,       \* the treatment-history operation called last and its result
    adjacency_list, \* Graph.adjacency_list of a Graph of its own
    graphOp,    \* the Graph method called last and its arguments
    triage_heap,    \* TriageService.heap.heap
    _local_counter, \* TriageService._local_counter, 0 while the attribute is unset
    triageOp,   \* the TriageService method called last, its argument and result
    table,      \* HashTable.table: a list of buckets of (key, value) pairs
    count,      \* HashTable.count
    hashOp      \* the HashTable method called last, its arguments and result

heapVars == <<heap, heapOp>>
labVars == <<labQueue, labOp>>
wrVars == <<wrQueue, wrCache, wrOp, returned>>
dbVars == <<patients, rooms, providers, resourceGraph, erOp>>
historyVars == <<history_stacks, treatments, thOp>>
graphVars == <<adjacency_list, graphOp>>
triageVars == <<triage_heap, _local_counter, triageOp>>
hashVars == <<table, count, hashOp>>
vars == <<heap, heapOp, labQueue, labOp, wrQueue, wrCache, wrOp, returned,
          patients, rooms, providers, resourceGraph, erOp,
          history_stacks, treatments, thOp, adjacency_list, graphOp,
          triage_heap, _local_counter, triageOp, table, count, hashOp>>

----------------------------------------------------------------------------
(* Bounds and input sets *)

MaxHeapLen == 4
MaxUpdateLen == 3
MaxWait == 201
MaxTriageLen == 3
MaxCounter == 3
MaxPriority == 3
MaxQueueLen == 3
MaxWaiting == 2
MaxScore == 2
MaxActions == 3
MaxEdges == 3
HashSize == 2
MaxKey == 2

Priorities == 1..MaxPriority
PatientIds == {"p1", "p2", "p3"}
\* an id that has no row in the patients table
UnknownId == "p0"
\* ids pushed onto the heap (the heap itself allows duplicates)
HeapIds == {"p1", "p2"}
None == "None"
\* clinical_data as pushed: a non-empty mapping
Payloads == {"d1"}
\* new_clinical_data of update_priority: omitted, a non-empty mapping, an empty one
NewPayloads == {None, "d2", "empty"}
Falsy(x) == x = None \/ x = "empty"

----------------------------------------------------------------------------
(* core/heap.py : MaxHeap *)

At(s, i) == s[i + 1]
Put(s, i, x) == [s EXCEPT ![i + 1] = x]

_parent(index) == (index - 1) \div 2
_left_child(index) == 2 * index + 1
_right_child(index) == 2 * index + 2

\* a swap that copies j over i and forgets what was at i
swap_overwrite(h, i, j) == [h EXCEPT ![i + 1] = h[j + 1]]

_swap(h, i, j) == [h EXCEPT ![i + 1] = h[j + 1], ![j + 1] = h[i + 1]]

RECURSIVE _heapify_up(_, _)
_heapify_up(h, index) ==
    IF index > 0
    THEN LET parent == _parent(index) IN
         IF At(h, index).priority > At(h, parent).priority
         THEN _heapify_up(_swap(h, index, parent), parent)
         ELSE h
    ELSE h

\* _heapify_down that never looks at the right child
RECURSIVE heapify_down_left_only(_, _)
heapify_down_left_only(h, index) ==
    LET size == Len(h)
        left == _left_child(index)
        largest == IF left < size /\ At(h, left).priority > At(h, index).priority
                   THEN left ELSE index
    IN IF largest # index
       THEN heapify_down_left_only(_swap(h, index, largest), largest)
       ELSE h

RECURSIVE _heapify_down(_, _)
_heapify_down(h, index) ==
    LET size == Len(h)
        left == _left_child(index)
        right == _right_child(index)
        l1 == IF left < size /\ At(h, left).priority > At(h, index).priority
              THEN left ELSE index
        largest == IF right < size /\ At(h, right).priority > At(h, l1).priority
                   THEN right ELSE l1
    IN IF largest # index
       THEN _heapify_down(_swap(h, index, largest), largest)
       ELSE h

Entry(priority, patient_id, clinical_data) ==
    [priority |-> priority, id |-> patient_id, data |-> clinical_data]

\* the value pop and peek return on an empty heap (Python None)
NoEntry == Entry(0, None, None)

\* push: append, then sift up from the last index
HeapPush(h, priority, patient_id, clinical_data) ==
    LET h1 == Append(h, Entry(priority, patient_id, clinical_data))
    IN _heapify_up(h1, Len(h1) - 1)

\* pop: [heap |-> the heap afterwards, ret |-> the value returned]
HeapPop(h) ==
    IF h = <<>> THEN [heap |-> h, ret |-> NoEntry]
    ELSE IF Len(h) = 1 THEN [heap |-> <<>>, ret |-> h[1]]
    ELSE LET root == At(h, 0)
             h1 == Put(SubSeq(h, 1, Len(h) - 1), 0, h[Len(h)])
         IN [heap |-> _heapify_down(h1, 0), ret |-> root]

\* index of the last entry with the given id, or -1
last_index_of(h, patient_id) ==
    IF \E i \in 0..(Len(h) - 1) : At(h, i).id = patient_id
    THEN CHOOSE i \in 0..(Len(h) - 1) :
            /\ At(h, i).id = patient_id
            /\ \A j \in (i + 1)..(Len(h) - 1) : At(h, j).id # patient_id
    ELSE -1

\* index of the first entry with the given id, or -1
FirstIndexOf(h, patient_id) ==
    IF \E i \in 0..(Len(h) - 1) : At(h, i).id = patient_id
    THEN CHOOSE i \in 0..(Len(h) - 1) :
            /\ At(h, i).id = patient_id
            /\ \A j \in 0..(i - 1) : At(h, j).id # patient_id
    ELSE -1

update_priority_up_only(h, patient_id, new_priority, new_clinical_data) ==
    LET i == FirstIndexOf(h, patient_id) IN
    IF i = -1 THEN [heap |-> h, ret |-> FALSE]
    ELSE LET h1 == Put(h, i, Entry(new_priority, patient_id,
                          IF Falsy(new_clinical_data) THEN At(h, i).data
                          ELSE new_clinical_data))
         IN [heap |-> _heapify_up(h1, i), ret |-> TRUE]

HeapUpdatePriority(h, patient_id, new_priority, new_clinical_data) ==
    LET i == FirstIndexOf(h, patient_id) IN
    IF i = -1 THEN [heap |-> h, ret |-> FALSE]
    ELSE LET h1 == Put(h, i, Entry(new_priority, patient_id,
                          IF Falsy(new_clinical_data) THEN At(h, i).data
                          ELSE new_clinical_data))
             h2 == _heapify_up(h1, i)
         IN [heap |-> _heapify_down(h2, i), ret |-> TRUE]

NoPop == 0

\* prev: the priority returned by the pop just before this one, NoPop when the
\* operation before was not a pop that returned an entry
Push ==
    /\ Len(heap) < MaxHeapLen
    /\ \E p \in Priorities, id \in HeapIds, d \in Payloads :
          /\ heap' = HeapPush(heap, p, id, d)
          /\ heapOp' = [op |-> "push", ret |-> NoEntry, found |-> FALSE,
                        prev |-> NoPop]
    /\ UNCHANGED <<triageVars, labVars, wrVars, dbVars, historyVars, graphVars, hashVars>>

Pop ==
    LET r == HeapPop(heap) IN
    /\ heap' = r.heap
    /\ heapOp' = [op |-> "pop", ret |-> r.ret, found |-> FALSE,
                  prev |-> IF heapOp.op = "pop" /\ heapOp.ret # NoEntry
                           THEN heapOp.ret.priority ELSE NoPop]
    /\ UNCHANGED <<triageVars, labVars, wrVars, dbVars, historyVars, graphVars, hashVars>>

\* one call update_priority(patient_id, new_priority, new_clinical_data)
update_priority(patient_id, new_priority, new_clinical_data) ==
    LET r == HeapUpdatePriority(heap, patient_id, new_priority,
                                new_clinical_data) IN
    /\ heap' = r.heap
    /\ heapOp' = [op |-> "update", ret |-> NoEntry, found |-> r.ret,
                  prev |-> NoPop]
    /\ UNCHANGED <<triageVars, labVars, wrVars, dbVars, historyVars, graphVars, hashVars>>

UpdatePriority ==
    \E id \in HeapIds, p \in Priorities, d \in NewPayloads :
        update_priority(id, p, d)

----------------------------------------------------------------------------
(* services/triage_service.py : TriageService                               *)
(* A score is kept in tenths of a point, so that waiting_time * 0.1 is      *)
(* waiting_time tenths and every score is an integer.                       *)

\* schemas/patient.py : ESILevel.LEVEL_1 .. LEVEL_5
ESILevels == 1..5

\* the base_score table
base_score(esi_level) ==
    CASE esi_level = 1 -> 1000
      [] esi_level = 2 -> 800
      [] esi_level = 3 -> 600
      [] esi_level = 4 -> 400
      [] esi_level = 5 -> 200

Min(a, b) == IF a < b THEN a ELSE b

time_adjustment_uncapped(waiting_time) == waiting_time

\* min(waiting_time * 0.1, 20)
time_adjustment(waiting_time) == Min(waiting_time, 200)

\* waiting_time as passed to calculate_priority_score
Waits == 0..MaxWait

VitalKeys == {"heart_rate", "blood_pressure", "oxygen_saturation"}
HeartRates == {49, 50, 120, 121}
\* blood_pressure strings: around both limits, one without a slash, one
\* whose diastolic part is missing
BloodPressures == {"89/60", "90/60", "180/95", "181/95", "120", "120/"}
Saturations == {91, 92}

\* a vital_signs dict: the keys it has and their values (0 and "" stand in
\* the fields of the keys it does not have)
Vitals(keys, hr, bp, spo2) ==
    [keys |-> keys,
     heart_rate |-> IF "heart_rate" \in keys THEN hr ELSE 0,
     blood_pressure |-> IF "blood_pressure" \in keys THEN bp ELSE "",
     oxygen_saturation |-> IF "oxygen_saturation" \in keys THEN spo2 ELSE 0]

NoVitals == Vitals({}, 0, "", 0)

VitalSigns ==
    {Vitals(keys, hr, bp, spo2) :
        keys \in SUBSET VitalKeys, hr \in HeartRates, bp \in BloodPressures,
        spo2 \in Saturations}

DigitChars == <<"0", "1", "2", "3", "4", "5", "6", "7", "8", "9">>
CharAt(text, i) == SubSeq(text, i, i)
IsDigit(c) == \E d \in 1..Len(DigitChars) : DigitChars[d] = c
DigitValue(c) == (CHOOSE d \in 1..Len(DigitChars) : DigitChars[d] = c) - 1

\* '/' in bp
HasSlash(text) == \E i \in 1..Len(text) : CharAt(text, i) = "/"

\* bp.split('/')
RECURSIVE split_slash(_)
split_slash(text) ==
    IF ~HasSlash(text) THEN <<text>>
    ELSE LET i == CHOOSE k \in 1..Len(text) :
                     /\ CharAt(text, k) = "/"
                     /\ \A j \in 1..(k - 1) : CharAt(text, j) # "/"
         IN <<SubSeq(text, 1, i - 1)>> \o split_slash(SubSeq(text, i + 1, Len(text)))

\* int(text) of a string of decimal digits; ValueError for a string that is
\* empty or holds another character
CanInt(text) == Len(text) > 0 /\ \A i \in 1..Len(text) : IsDigit(CharAt(text, i))

RECURSIVE to_int(_)
to_int(text) ==
    IF Len(text) = 1 THEN DigitValue(text)
    ELSE 10 * to_int(SubSeq(text, 1, Len(text) - 1))
         + DigitValue(CharAt(text, Len(text)))

Scored(value, err) == [value |-> value, err |-> err]

\* the blood_pressure block: systolic, diastolic = map(int, bp.split('/'))
\* raises ValueError unless there are exactly two parts and both are integers
blood_pressure_adjustment(bp) ==
    IF ~HasSlash(bp) THEN Scored(0, None)
    ELSE LET parts == split_slash(bp) IN
         IF Len(parts) # 2 \/ ~CanInt(parts[1]) \/ ~CanInt(parts[2])
         THEN Scored(0, "ValueError")
         ELSE LET systolic == to_int(parts[1]) IN
              Scored(IF systolic < 90 \/ systolic > 180 THEN 100 ELSE 0, None)

vital_adjustment_largest_only(vital_signs) ==
    LET hr == IF "heart_rate" \in vital_signs.keys
                 /\ (vital_signs.heart_rate < 50 \/ vital_signs.heart_rate > 120)
              THEN 100 ELSE 0
        bp == IF "blood_pressure" \in vital_signs.keys
              THEN blood_pressure_adjustment(vital_signs.blood_pressure)
              ELSE Scored(0, None)
        spo2 == IF "oxygen_saturation" \in vital_signs.keys
                   /\ vital_signs.oxygen_saturation < 92
                THEN 150 ELSE 0
    IN Scored(IF spo2 > 0 THEN spo2 ELSE IF bp.value > 0 THEN bp.value ELSE hr,
              bp.err)

_calculate_vital_adjustment(vital_signs) ==
    LET hr == IF "heart_rate" \in vital_signs.keys
                 /\ (vital_signs.heart_rate < 50 \/ vital_signs.heart_rate > 120)
              THEN 100 ELSE 0
        bp == IF "blood_pressure" \in vital_signs.keys
              THEN blood_pressure_adjustment(vital_signs.blood_pressure)
              ELSE Scored(0, None)
        spo2 == IF "oxygen_saturation" \in vital_signs.keys
                   /\ vital_signs.oxygen_saturation < 92
                THEN 150 ELSE 0
    IN Scored(hr + bp.value + spo2, bp.err)

\* [value |-> the score returned, err |-> None or the exception raised]
calculate_priority_score(esi_level, waiting_time, vital_signs) ==
    LET vital_adjustment == _calculate_vital_adjustment(vital_signs) IN
    IF vital_adjustment.err # None THEN Scored(0, vital_adjustment.err)
    ELSE Scored(base_score(esi_level) + time_adjustment(waiting_time)
                + vital_adjustment.value, None)

\* 'waiting_time' is not a key of patient_data
NoWaitingTime == -1

\* the patient_data dict; id is None when it has no 'id' key
PatientData(id, esi_level, waiting_time, vital_signs) ==
    [id |-> id, esi_level |-> esi_level, waiting_time |-> waiting_time,
     vital_signs |-> vital_signs]

NoPatientData == PatientData(None, 0, NoWaitingTime, NoVitals)

\* the clinical_data dict add_patient builds; its 'timestamp' (time.time())
\* is read by no method and is left out
ClinicalData(patient_data, waiting_time) ==
    [patient_data |-> patient_data, waiting_time |-> waiting_time]

\* get_next_patient returning None
TriageNone == Entry(0, None, ClinicalData(NoPatientData, 0))

\* ids passed as patient_data['id']: none, the empty string, an id made by
\* PatientService
TriageIds == {None, "", "p1"}
TriageEsiLevels == {2, 3}
TriageWaits == {NoWaitingTime, 250}
\* vital signs of a patient that is added: all three given, the heart rate
\* abnormal
TriageVitals == {Vitals(VitalKeys, 121, "90/60", 92)}

\* not patient_id
NoId(patient_id) == patient_id = None \/ patient_id = ""

dec_unpadded(n, width) ==
    IF n < 10 THEN DigitChars[n + 1] ELSE "many"

\* the decimal digits of n
RECURSIVE Decimal(_)
Decimal(n) ==
    IF n < 10 THEN DigitChars[n + 1]
    ELSE Decimal(n \div 10) \o DigitChars[(n % 10) + 1]

RECURSIVE PadZero(_, _)
PadZero(text, width) ==
    IF Len(text) >= width THEN text ELSE PadZero("0" \o text, width)

\* format(n, "0{width}d")
ZeroPadded(n, width) == PadZero(Decimal(n), width)

\* f"P{self_local_counter:06d}"
FallbackId(self_local_counter) == "P" \o ZeroPadded(self_local_counter, 6)

\* score: the value calculate_priority_score returned in the call, 0 if none
TriageResult(op, patient_data, id, ret, score, err) ==
    [op |-> op, patient_data |-> patient_data, id |-> id, ret |-> ret,
     score |-> score, err |-> err]

\* add_patient(patient_data); the counter is set before the score is
\* computed, so it stays advanced when calculate_priority_score raises
add_patient(patient_data) ==
    LET self_local_counter == _local_counter + 1
        patient_id == IF NoId(patient_data.id)
                      THEN FallbackId(self_local_counter)
                      ELSE patient_data.id
        waiting_time == IF patient_data.waiting_time = NoWaitingTime THEN 0
                        ELSE patient_data.waiting_time
        priority_score == calculate_priority_score(
                              patient_data.esi_level, waiting_time,
                              patient_data.vital_signs)
    IN /\ _local_counter' = IF NoId(patient_data.id) THEN self_local_counter
                            ELSE _local_counter
       /\ IF priority_score.err # None
          THEN /\ triage_heap' = triage_heap
               /\ triageOp' = TriageResult("add_patient", patient_data, None,
                                           TriageNone, 0, priority_score.err)
          ELSE /\ triage_heap' =
                     HeapPush(triage_heap, priority_score.value, patient_id,
                              ClinicalData(patient_data, waiting_time))
               /\ triageOp' = TriageResult("add_patient", patient_data,
                                           patient_id, TriageNone,
                                           priority_score.value, None)
       /\ UNCHANGED <<heapVars, labVars, wrVars, dbVars, historyVars, graphVars, hashVars>>

AddPatient ==
    /\ Len(triage_heap) < MaxTriageLen
    /\ \E id \in TriageIds, esi_level \in TriageEsiLevels,
          waiting_time \in TriageWaits, vital_signs \in TriageVitals :
          /\ NoId(id) => _local_counter < MaxCounter
          /\ add_patient(PatientData(id, esi_level, waiting_time, vital_signs))

triage_peek(h) ==
    IF h = <<>> THEN [heap |-> h, ret |-> TriageNone]
    ELSE [heap |-> h, ret |-> At(h, 0)]

\* self.heap.pop()
TriagePop(h) ==
    IF h = <<>> THEN [heap |-> h, ret |-> TriageNone] ELSE HeapPop(h)

\* TriageService.get_next_patient
triage_get_next_patient ==
    LET r == TriagePop(triage_heap) IN
    /\ triage_heap' = r.heap
    /\ triageOp' = TriageResult("get_next_patient", NoPatientData, None, r.ret,
                                0, None)
    /\ UNCHANGED <<_local_counter, heapVars, labVars, wrVars, dbVars,
                   historyVars, graphVars, hashVars>>

\* the call calculate_priority_score(esi_level, waiting_time, vital_signs)
\* on the arguments that triageOp holds
call_calculate_priority_score ==
    LET args == triageOp.patient_data
        r == calculate_priority_score(args.esi_level, args.waiting_time,
                                      args.vital_signs)
    IN /\ triageOp.op = "arguments"
       /\ triageOp' = TriageResult("calculate_priority_score", args, None,
                                   TriageNone, r.value, r.err)
       /\ UNCHANGED <<triage_heap, _local_counter, heapVars, labVars, wrVars,
                      dbVars, historyVars, graphVars, hashVars>>

\* TriageService()
InitTriage ==
    /\ triage_heap = <<>>
    /\ _local_counter = 0
    /\ triageOp = TriageResult("init", NoPatientData, None, TriageNone, 0, None)

----------------------------------------------------------------------------
(* core/queue.py : PriorityQueue *)

QEntry(priority, item) == [priority |-> priority, item |-> item]

QEnqueue(q, item, priority) == Append(q, QEntry(priority, item))

\* the scan with >= for >, which ends on the last of the entries with the
\* highest priority
RECURSIVE scan_highest_last(_, _, _)
scan_highest_last(q, i, highest_priority_index) ==
    IF i >= Len(q) THEN highest_priority_index
    ELSE scan_highest_last(q, i + 1,
            IF At(q, i).priority >= At(q, highest_priority_index).priority
            THEN i ELSE highest_priority_index)

\* the scan of dequeue and peek: i runs over range(1, len(queue))
RECURSIVE ScanHighest(_, _, _)
ScanHighest(q, i, highest_priority_index) ==
    IF i >= Len(q) THEN highest_priority_index
    ELSE ScanHighest(q, i + 1,
            IF At(q, i).priority > At(q, highest_priority_index).priority
            THEN i ELSE highest_priority_index)

\* dequeue: [queue |-> the queue afterwards, ret |-> the item returned].
\* The code returns self.queue[highest_priority_index][1] and removes nothing.
QDequeue(q) ==
    IF Len(q) = 0 THEN [queue |-> q, ret |-> None]
    ELSE [queue |-> q, ret |-> At(q, ScanHighest(q, 1, 0)).item]

QPeek(q) ==
    IF Len(q) = 0 THEN None
    ELSE At(q, ScanHighest(q, 1, 0)).item

----------------------------------------------------------------------------
(* services/resource_service.py : the lab-test queue *)

\* test_request dictionaries, told apart by their content
LabTests == {"t1", "t2"}

schedule_lab_test ==
    /\ Len(labQueue) < MaxQueueLen
    /\ \E t \in LabTests, priority \in Priorities :
          /\ labQueue' = QEnqueue(labQueue, t, priority)
          /\ labOp' = [op |-> "enqueue", ret |-> t]
    /\ UNCHANGED <<heapVars, triageVars, wrVars, dbVars, historyVars, graphVars, hashVars>>

get_next_lab_test ==
    LET r == QDequeue(labQueue) IN
    /\ labQueue' = r.queue
    /\ labOp' = [op |-> "dequeue", ret |-> r.ret]
    /\ UNCHANGED <<heapVars, triageVars, wrVars, dbVars, historyVars, graphVars, hashVars>>

peek_next_lab_test ==
    /\ labOp' = [op |-> "peek", ret |-> QPeek(labQueue)]
    /\ UNCHANGED <<labQueue, heapVars, triageVars, wrVars, dbVars, historyVars, graphVars, hashVars>>

----------------------------------------------------------------------------
(* models/patient.py : rows of the patients table *)

\* no row with this id
NoRow == [exists |-> FALSE, status |-> None, assigned_room_id |-> None]
\* the row create_patient stores
NewRow == [exists |-> TRUE, status |-> "waiting", assigned_room_id |-> None]

\* db.query(Patient).filter(Patient.id == patient_id).first() is not None
PatientExists(patient_id) == patient_id \in PatientIds /\ patients[patient_id].exists

----------------------------------------------------------------------------
(* services/waiting_room_service.py : WaitingRoomService *)

Scores == 1..MaxScore
AvgTreatmentTime == 30
\* get_estimated_wait_time returning None
NoWait == -1

\* one item of the _queue_cache dict; the dict keeps insertion order
CacheEntry(patient_id, priority_score) == [id |-> patient_id, priority |-> priority_score]
CacheIds(cache) == {cache[i].id : i \in 1..Len(cache)}
CacheIndex(cache, patient_id) == CHOOSE i \in 1..Len(cache) : cache[i].id = patient_id
cache_delete_oldest(cache, patient_id) == Tail(cache)

\* del self._queue_cache[patient_id]
CacheDelete(cache, patient_id) ==
    LET i == CacheIndex(cache, patient_id)
    IN SubSeq(cache, 1, i - 1) \o SubSeq(cache, i + 1, Len(cache))

\* sorted(..., key=priority, reverse=True): stable, equal keys keep dict order
RECURSIVE InsertDesc(_, _)
InsertDesc(sorted, e) ==
    IF sorted = <<>> THEN <<e>>
    ELSE IF Head(sorted).priority >= e.priority
         THEN <<Head(sorted)>> \o InsertDesc(Tail(sorted), e)
         ELSE <<e>> \o sorted

RECURSIVE SortedDesc(_)
SortedDesc(cache) ==
    IF cache = <<>> THEN <<>>
    ELSE InsertDesc(SortedDesc(SubSeq(cache, 1, Len(cache) - 1)), cache[Len(cache)])

position_zero_indexed(cache, patient_id) ==
    IF patient_id \notin CacheIds(cache) THEN -1
    ELSE CacheIndex(SortedDesc(cache), patient_id) - 1

\* enumerate(sorted_patients, 1)
_get_position_in_queue(cache, patient_id) ==
    IF patient_id \notin CacheIds(cache) THEN -1
    ELSE CacheIndex(SortedDesc(cache), patient_id)

wait_time_counts_self(cache, patient_id) ==
    IF patient_id \notin CacheIds(cache) THEN NoWait
    ELSE _get_position_in_queue(cache, patient_id) * AvgTreatmentTime

\* get_estimated_wait_time(patient_id), avg_treatment_time left at its default
get_estimated_wait_time(cache, patient_id) ==
    IF patient_id \notin CacheIds(cache) THEN NoWait
    ELSE (_get_position_in_queue(cache, patient_id) - 1) * AvgTreatmentTime

\* again: this get_next_patient returned an id it had already returned since
\* the last add
WrResult(op, patient_id, ret, err, cache) ==
    [op |-> op, pid |-> patient_id, ret |-> ret, err |-> err, again |-> FALSE,
     position |-> _get_position_in_queue(cache, patient_id),
     wait |-> get_estimated_wait_time(cache, patient_id)]

add_without_duplicate_check(patient_id, priority_score) ==
    IF ~PatientExists(patient_id)
    THEN /\ wrOp' = WrResult("add", patient_id, None, "ValueError", wrCache)
         /\ UNCHANGED <<wrQueue, wrCache, returned>>
    ELSE /\ wrQueue' = QEnqueue(wrQueue, patient_id, -priority_score)
         /\ wrCache' = IF patient_id \in CacheIds(wrCache)
                       THEN [wrCache EXCEPT ![CacheIndex(wrCache, patient_id)] =
                                CacheEntry(patient_id, priority_score)]
                       ELSE Append(wrCache, CacheEntry(patient_id, priority_score))
         /\ wrOp' = WrResult("add", patient_id, "added", None, wrCache')
         /\ returned' = {}

\* add_to_waiting_room(patient_id, priority_score, db)
AddToWaitingRoom(patient_id, priority_score) ==
    IF patient_id \in CacheIds(wrCache) \/ ~PatientExists(patient_id)
    THEN /\ wrOp' = WrResult("add", patient_id, None, "ValueError", wrCache)
         /\ UNCHANGED <<wrQueue, wrCache, returned>>
    ELSE /\ wrQueue' = QEnqueue(wrQueue, patient_id, -priority_score)
         /\ wrCache' = Append(wrCache, CacheEntry(patient_id, priority_score))
         /\ wrOp' = WrResult("add", patient_id, "added", None, wrCache')
         /\ returned' = {}

add_to_waiting_room ==
    /\ Len(wrQueue) < MaxWaiting
    /\ \E patient_id \in PatientIds \cup {UnknownId}, priority_score \in Scores :
          AddToWaitingRoom(patient_id, priority_score)
    /\ UNCHANGED <<heapVars, triageVars, labVars, dbVars, historyVars, graphVars, hashVars>>

get_next_patient ==
    /\ IF Len(wrQueue) = 0
       THEN /\ wrOp' = WrResult("next", None, None, None, wrCache)
            /\ UNCHANGED <<wrQueue, wrCache, returned>>
       ELSE LET r == QDequeue(wrQueue)
                patient_id == r.ret
            IN /\ wrQueue' = r.queue
               /\ wrCache' = IF patient_id \in CacheIds(wrCache)
                             THEN CacheDelete(wrCache, patient_id) ELSE wrCache
               /\ wrOp' = [WrResult("next", None, patient_id, None, wrCache')
                            EXCEPT !.again = patient_id \in returned]
               /\ returned' = returned \cup {patient_id}
    /\ UNCHANGED <<heapVars, triageVars, labVars, dbVars, historyVars, graphVars, hashVars>>

remove_patient ==
    /\ \E patient_id \in PatientIds \cup {UnknownId} :
          IF patient_id \notin CacheIds(wrCache)
          THEN /\ wrOp' = WrResult("remove", patient_id, "False", None, wrCache)
               /\ UNCHANGED wrCache
          ELSE /\ wrCache' = CacheDelete(wrCache, patient_id)
               /\ wrOp' = WrResult("remove", patient_id, "True", None, wrCache')
    /\ UNCHANGED <<wrQueue, returned, heapVars, triageVars, labVars, dbVars, historyVars, graphVars, hashVars>>

wr_update_priority ==
    /\ \E patient_id \in PatientIds \cup {UnknownId}, new_priority \in Scores :
          IF patient_id \notin CacheIds(wrCache)
          THEN /\ wrOp' = WrResult("update", patient_id, "False", None, wrCache)
               /\ UNCHANGED wrCache
          ELSE /\ wrCache' = [wrCache EXCEPT ![CacheIndex(wrCache, patient_id)] =
                                 CacheEntry(patient_id, new_priority)]
               /\ wrOp' = WrResult("update", patient_id, "True", None, wrCache')
    /\ UNCHANGED <<wrQueue, returned, heapVars, triageVars, labVars, dbVars, historyVars, graphVars, hashVars>>

clear_queue ==
    /\ wrQueue' = <<>>
    /\ wrCache' = <<>>
    /\ wrOp' = WrResult("clear", None, None, None, <<>>)
    /\ returned' = {}
    /\ UNCHANGED <<heapVars, triageVars, labVars, dbVars, historyVars, graphVars, hashVars>>

\* the status a waiting-room handler answers with when its try block raised
\* HTTPException(raised), or nothing (None): "except Exception" catches the
\* HTTPException too and raises HTTPException(500) in its place
ExceptException(raised) == IF raised = None THEN "200" ELSE "500"

\* DELETE /waiting-room/remove/{patient_id}
remove_from_waiting_room ==
    /\ \E patient_id \in PatientIds \cup {UnknownId} :
          LET success == patient_id \in CacheIds(wrCache) IN
          /\ wrCache' = IF success THEN CacheDelete(wrCache, patient_id)
                        ELSE wrCache
          /\ wrOp' = WrResult("DELETE remove", patient_id,
                              ExceptException(IF success THEN None ELSE "404"),
                              None, wrCache')
    /\ UNCHANGED <<wrQueue, returned, heapVars, triageVars, labVars, dbVars, historyVars, graphVars, hashVars>>

\* GET /waiting-room/estimate/{patient_id}
estimate_wait_time ==
    /\ \E patient_id \in PatientIds \cup {UnknownId} :
          LET wait_time == get_estimated_wait_time(wrCache, patient_id) IN
          wrOp' = WrResult("GET estimate", patient_id,
                           ExceptException(IF wait_time = NoWait THEN "404"
                                           ELSE None),
                           None, wrCache)
    /\ UNCHANGED <<wrQueue, wrCache, returned, heapVars, triageVars, labVars, dbVars, historyVars, graphVars, hashVars>>

\* PriorityQueue.size()
QSize(q) == Len(q)

\* get_waiting_count(), the total_waiting of add_to_waiting_room and of
\* get_queue_status on a queue that is not empty
get_waiting_count(queue) == QSize(queue)

\* peek_next_patient()
peek_next_patient(queue) == IF Len(queue) = 0 THEN None ELSE QPeek(queue)

\* the patient_id of get_queue_status(db)['next_patient'], None where the
\* status has no such key or holds None; every cached id has a patients row
status_next_patient(queue, cache) ==
    IF Len(queue) = 0 \/ cache = <<>> THEN None
    ELSE LET first == CHOOSE id \in CacheIds(cache) :
                         \A other \in CacheIds(cache) :
                            _get_position_in_queue(cache, id)
                               <= _get_position_in_queue(cache, other)
         IN first

InitWaitingRoom ==
    /\ wrQueue = <<>>
    /\ wrCache = <<>>
    /\ wrOp = WrResult("init", None, None, None, <<>>)
    /\ returned = {}

----------------------------------------------------------------------------
(* core/graph.py : Graph.add_vertex, Graph.add_edge *)

RoomIds == {"r1", "r2"}
UnknownRoom == "r0"
ProviderIds == {"dr1"}
UnknownProvider == "dr0"

\* everything the handlers can name as a vertex
GraphVertices == PatientIds \cup RoomIds \cup ProviderIds

\* adjacency_list: order is the dict's key order, adj[v] the list stored under v
EmptyGraph == [order |-> <<>>, adj |-> [v \in GraphVertices |-> <<>>]]
HasVertex(g, v) == \E i \in 1..Len(g.order) : g.order[i] = v

add_vertex(g, vertex) ==
    IF HasVertex(g, vertex) THEN g
    ELSE [g EXCEPT !.order = Append(@, vertex)]

add_edge_one_way(g, vertex1, vertex2, weight) ==
    LET g1 == add_vertex(add_vertex(g, vertex1), vertex2)
    IN [g1 EXCEPT !.adj[vertex1] = Append(@, <<vertex2, weight>>)]

add_edge(g, vertex1, vertex2, weight) ==
    LET g1 == add_vertex(add_vertex(g, vertex1), vertex2)
        g2 == [g1 EXCEPT !.adj[vertex1] = Append(@, <<vertex2, weight>>)]
    IN [g2 EXCEPT !.adj[vertex2] = Append(@, <<vertex1, weight>>)]

----------------------------------------------------------------------------
(* core/graph.py : the queries of Graph, on a Graph of its own built by     *)
(* add_vertex and add_edge as tests/test_graph.py builds one               *)

Vertices == {"A", "B", "C"}
\* the order of these names as Python compares str
VertexOrder == <<"A", "B", "C">>
Rank(v) == CHOOSE i \in 1..Len(VertexOrder) : VertexOrder[i] = v
\* the graph is undirected: add_edge(u, v, w) and add_edge(v, u, w) append
\* the same two adjacency entries, so each pair is passed in one order
EdgePairs == {<<"A", "B">>, <<"A", "C">>, <<"B", "C">>}
\* weight: the default 1, and the least weight that is not negative
Weights == {0, 1}
\* max_depth=None
NoLimit == -1
DepthLimits == {0, 1, 2}
\* float('infinity')
Infinity == 1000

\* Graph()
NewGraph == [order |-> <<>>, adj |-> [v \in Vertices |-> <<>>]]

get_neighbors(g, vertex) == IF HasVertex(g, vertex) THEN g.adj[vertex] ELSE <<>>

get_node_connections(g, vertex) ==
    IF ~HasVertex(g, vertex) THEN 0 ELSE Len(g.adj[vertex])

pop_right(queue) ==
    [item |-> queue[Len(queue)], rest |-> SubSeq(queue, 1, Len(queue) - 1)]

\* queue.popleft()
PopLeft(queue) == [item |-> Head(queue), rest |-> Tail(queue)]

over_depth_inclusive(max_depth, depth) == max_depth # NoLimit /\ depth >= max_depth

\* max_depth is not None and depth > max_depth
OverDepth(max_depth, depth) == max_depth # NoLimit /\ depth > max_depth

\* the (neighbor, depth + 1) pairs that one visit appends to the queue
BfsPushes(g, current_vertex, depth, visited) ==
    LET fresh == SelectSeq(g.adj[current_vertex], LAMBDA e : e[1] \notin visited)
    IN [i \in 1..Len(fresh) |-> <<fresh[i][1], depth + 1>>]

\* the while loop of bfs
RECURSIVE bfs_loop(_, _, _, _, _)
bfs_loop(g, max_depth, visited, queue, result) ==
    IF queue = <<>> THEN result
    ELSE LET popped == PopLeft(queue)
             current_vertex == popped.item[1]
             depth == popped.item[2]
         IN IF current_vertex \in visited
            THEN bfs_loop(g, max_depth, visited, popped.rest, result)
            ELSE IF OverDepth(max_depth, depth)
            THEN bfs_loop(g, max_depth, visited, popped.rest, result)
            ELSE bfs_loop(g, max_depth, visited \cup {current_vertex},
                          popped.rest \o BfsPushes(g, current_vertex, depth,
                                                   visited \cup {current_vertex}),
                          Append(result, <<current_vertex, depth>>))

bfs(g, start_vertex, max_depth) ==
    IF ~HasVertex(g, start_vertex) THEN <<>>
    ELSE bfs_loop(g, max_depth, {}, << <<start_vertex, 0>> >>, <<>>)

never_at_end(end_vertex, vertex) == FALSE

\* end_vertex and vertex == end_vertex
AtEnd(end_vertex, vertex) == end_vertex # None /\ vertex = end_vertex

\* dfs_recursive(vertex) and its for loop from the neighbor at index i on;
\* st carries visited and path, found is the value returned
RECURSIVE dfs_recursive(_, _, _, _)
RECURSIVE dfs_neighbors(_, _, _, _, _)
dfs_recursive(g, end_vertex, vertex, st) ==
    LET entered == [visited |-> st.visited \cup {vertex},
                    path |-> Append(st.path, vertex),
                    found |-> FALSE]
    IN IF AtEnd(end_vertex, vertex) THEN [entered EXCEPT !.found = TRUE]
       ELSE dfs_neighbors(g, end_vertex, vertex, 1, entered)

dfs_neighbors(g, end_vertex, vertex, i, st) ==
    IF i > Len(g.adj[vertex]) THEN [st EXCEPT !.found = FALSE]
    ELSE LET neighbor == g.adj[vertex][i][1] IN
         IF neighbor \notin st.visited
         THEN LET r == dfs_recursive(g, end_vertex, neighbor, st) IN
              IF r.found THEN r
              ELSE dfs_neighbors(g, end_vertex, vertex, i + 1, r)
         ELSE dfs_neighbors(g, end_vertex, vertex, i + 1, st)

dfs(g, start_vertex, end_vertex) ==
    IF ~HasVertex(g, start_vertex) THEN <<>>
    ELSE dfs_recursive(g, end_vertex, start_vertex,
                       [visited |-> {}, path |-> <<>>, found |-> FALSE]).path

\* the order of (distance, vertex) tuples in the heapq
TupleLeq(a, b) == a[1] < b[1] \/ (a[1] = b[1] /\ Rank(a[2]) <= Rank(b[2]))

\* heapq.heappop takes the least tuple
LeastIndex(priority_queue) ==
    CHOOSE i \in 1..Len(priority_queue) :
        \A j \in 1..Len(priority_queue) : TupleLeq(priority_queue[i], priority_queue[j])

edge_cost_in_hops(current_distance, weight) == current_distance + 1

\* distance = current_distance + weight
EdgeCost(current_distance, weight) == current_distance + weight

\* the for loop of shortest_path from the neighbor at index i on
RECURSIVE relax(_, _, _, _, _)
relax(g, current_vertex, current_distance, i, st) ==
    IF i > Len(g.adj[current_vertex]) THEN st
    ELSE LET neighbor == g.adj[current_vertex][i][1]
             weight == g.adj[current_vertex][i][2]
             distance == EdgeCost(current_distance, weight)
         IN relax(g, current_vertex, current_distance, i + 1,
                  IF distance < st.distances[neighbor]
                  THEN [st EXCEPT
                           !.distances[neighbor] = distance,
                           !.previous_vertices[neighbor] = current_vertex,
                           !.priority_queue = Append(@, <<distance, neighbor>>)]
                  ELSE st)

\* the while loop of shortest_path; adjacency_list[current_vertex] raises
\* KeyError for a vertex that is not a key
RECURSIVE dijkstra(_, _)
dijkstra(g, st) ==
    IF st.priority_queue = <<>> THEN st
    ELSE LET i == LeastIndex(st.priority_queue)
             current_distance == st.priority_queue[i][1]
             current_vertex == st.priority_queue[i][2]
             popped == [st EXCEPT !.priority_queue =
                           SubSeq(@, 1, i - 1) \o SubSeq(@, i + 1, Len(@))]
         IN IF current_distance > st.distances[current_vertex]
            THEN dijkstra(g, popped)
            ELSE IF ~HasVertex(g, current_vertex)
            THEN [popped EXCEPT !.err = "KeyError"]
            ELSE dijkstra(g, relax(g, current_vertex, current_distance, 1, popped))

RECURSIVE reconstruct_keeps_partial(_, _, _, _)
reconstruct_keeps_partial(previous_vertices, start, current_vertex, path) ==
    IF current_vertex = start THEN <<start>> \o path
    ELSE IF previous_vertices[current_vertex] = None THEN <<current_vertex>> \o path
    ELSE reconstruct_keeps_partial(previous_vertices, start,
                                   previous_vertices[current_vertex],
                                   <<current_vertex>> \o path)

\* the path reconstruction of shortest_path
RECURSIVE reconstruct(_, _, _, _)
reconstruct(previous_vertices, start, current_vertex, path) ==
    IF current_vertex = start THEN <<start>> \o path
    ELSE IF previous_vertices[current_vertex] = None THEN <<>>
    ELSE reconstruct(previous_vertices, start, previous_vertices[current_vertex],
                     <<current_vertex>> \o path)

\* path is the list returned, err the exception raised instead
shortest_path(g, start, end) ==
    LET r == dijkstra(g, [distances |-> [v \in Vertices |->
                                            IF v = start THEN 0 ELSE Infinity],
                          previous_vertices |-> [v \in Vertices |-> None],
                          priority_queue |-> << <<0, start>> >>,
                          err |-> None])
    IN IF r.err # None THEN [path |-> <<>>, err |-> r.err]
       ELSE [path |-> reconstruct(r.previous_vertices, start, end, <<>>),
             err |-> None]

GraphCall(op, start, end, max_depth) ==
    [op |-> op, start |-> start, end |-> end, max_depth |-> max_depth]

call_add_vertex ==
    /\ \E vertex \in Vertices :
          /\ adjacency_list' = add_vertex(adjacency_list, vertex)
          /\ graphOp' = GraphCall("add_vertex", vertex, None, NoLimit)
    /\ UNCHANGED <<heapVars, triageVars, labVars, wrVars, dbVars, historyVars, hashVars>>

\* the number of add_edge calls made: each appends two adjacency entries
RECURSIVE EntryCount(_, _)
EntryCount(g, vs) ==
    IF vs = {} THEN 0
    ELSE LET v == CHOOSE x \in vs : TRUE
         IN Len(g.adj[v]) + EntryCount(g, vs \ {v})

EdgeCount(g) == EntryCount(g, Vertices) \div 2

call_add_edge ==
    /\ EdgeCount(adjacency_list) < MaxEdges
    /\ \E e \in EdgePairs, weight \in Weights :
          /\ adjacency_list' = add_edge(adjacency_list, e[1], e[2], weight)
          /\ graphOp' = GraphCall("add_edge", e[1], e[2], NoLimit)
    /\ UNCHANGED <<heapVars, triageVars, labVars, wrVars, dbVars, historyVars, hashVars>>

\* the queries leave the graph as it is; graphOp names the call and the
\* operator of the same name gives what it returns
call_get_neighbors ==
    /\ \E vertex \in Vertices :
          graphOp' = GraphCall("get_neighbors", vertex, None, NoLimit)
    /\ UNCHANGED <<adjacency_list, heapVars, triageVars, labVars, wrVars, dbVars, historyVars, hashVars>>

call_get_node_connections ==
    /\ \E vertex \in Vertices :
          graphOp' = GraphCall("get_node_connections", vertex, None, NoLimit)
    /\ UNCHANGED <<adjacency_list, heapVars, triageVars, labVars, wrVars, dbVars, historyVars, hashVars>>

call_bfs ==
    /\ \E start_vertex \in Vertices, max_depth \in DepthLimits \cup {NoLimit} :
          graphOp' = GraphCall("bfs", start_vertex, None, max_depth)
    /\ UNCHANGED <<adjacency_list, heapVars, triageVars, labVars, wrVars, dbVars, historyVars, hashVars>>

call_dfs ==
    /\ \E start_vertex \in Vertices, end_vertex \in Vertices \cup {None} :
          graphOp' = GraphCall("dfs", start_vertex, end_vertex, NoLimit)
    /\ UNCHANGED <<adjacency_list, heapVars, triageVars, labVars, wrVars, dbVars, historyVars, hashVars>>

call_shortest_path ==
    /\ \E start \in Vertices, end \in Vertices :
          graphOp' = GraphCall("shortest_path", start, end, NoLimit)
    /\ UNCHANGED <<adjacency_list, heapVars, triageVars, labVars, wrVars, dbVars, historyVars, hashVars>>

RECURSIVE ties_latest_first(_, _)
ties_latest_first(sorted, e) ==
    IF sorted = <<>> THEN <<e>>
    ELSE IF Head(sorted)[2] > e[2]
         THEN <<Head(sorted)>> \o ties_latest_first(Tail(sorted), e)
         ELSE <<e>> \o sorted

\* vertex_degrees.sort(key=degree, reverse=True): stable, equal degrees keep
\* the order of adjacency_list.items()
RECURSIVE InsertByDegree(_, _)
InsertByDegree(sorted, e) ==
    IF sorted = <<>> THEN <<e>>
    ELSE IF Head(sorted)[2] >= e[2]
         THEN <<Head(sorted)>> \o InsertByDegree(Tail(sorted), e)
         ELSE <<e>> \o sorted

\* the sorted (vertex, degree) pairs of the first n keys
RECURSIVE SortByDegree(_, _)
SortByDegree(g, n) ==
    IF n = 0 THEN <<>>
    ELSE InsertByDegree(SortByDegree(g, n - 1),
                        <<g.order[n], Len(g.adj[g.order[n]])>>)

find_bottlenecks(g) == SortByDegree(g, Len(g.order))

\* add_edge(vertex1, vertex2) with the default weight, for any two vertices:
\* either order, and a vertex with itself
call_add_edge_default ==
    /\ EdgeCount(adjacency_list) < MaxEdges
    /\ \E vertex1 \in Vertices, vertex2 \in Vertices :
          /\ adjacency_list' = add_edge(adjacency_list, vertex1, vertex2, 1)
          /\ graphOp' = GraphCall("add_edge", vertex1, vertex2, NoLimit)
    /\ UNCHANGED <<heapVars, triageVars, labVars, wrVars, dbVars, historyVars, hashVars>>

call_find_bottlenecks ==
    /\ graphOp' = GraphCall("find_bottlenecks", None, None, NoLimit)
    /\ UNCHANGED <<adjacency_list, heapVars, triageVars, labVars, wrVars, dbVars, historyVars, hashVars>>

InitGraph ==
    /\ adjacency_list = NewGraph
    /\ graphOp = GraphCall("init", None, None, NoLimit)

----------------------------------------------------------------------------
(* main.py : the patient, room and resource handlers; models/resource.py *)

\* rows as init_db.py seeds them
SeedRoom == [status |-> "available", current_patient_id |-> None]
SeedProvider == [is_available |-> "true", current_patient_ids |-> {}]

RoomExists(room_id) == room_id \in RoomIds
ProviderExists(provider_id) == provider_id \in ProviderIds

\* db.query(Provider).filter(Provider.current_patient_ids.contains([patient_id]))
ProvidersWithPatient(patient_id) ==
    {d \in ProviderIds : patient_id \in providers[d].current_patient_ids}

\* prev: the patient's status when the handler was called; withProvider: the
\* provider_ids argument named at least one provider that has a row
ErResult(op, patient_id, room_id, provider_ids, code) ==
    [op |-> op, pid |-> patient_id, code |-> code,
     withProvider |-> \E d \in provider_ids : ProviderExists(d),
     prev |-> IF PatientExists(patient_id) THEN patients[patient_id].status ELSE None]

start_treatment_no_provider_check(patient_id) ==
    LET patient == IF PatientExists(patient_id) THEN patients[patient_id] ELSE NoRow
        assigned_room_id == patient.assigned_room_id
        reject(code) ==
            /\ erOp' = ErResult("start_treatment", patient_id, None, {}, code)
            /\ UNCHANGED patients
    IN
    IF ~patient.exists THEN reject(404)
    ELSE IF patient.status = "in_treatment" THEN reject(400)
    ELSE IF patient.status = "discharged" THEN reject(400)
    ELSE IF assigned_room_id = None THEN reject(400)
    ELSE IF ~RoomExists(assigned_room_id) THEN reject(400)
    ELSE IF rooms[assigned_room_id].current_patient_id # patient_id THEN reject(400)
    ELSE /\ patients' = [patients EXCEPT ![patient_id].status = "in_treatment"]
         /\ erOp' = ErResult("start_treatment", patient_id, None, {}, 200)

\* PUT /patients/{patient_id}/start-treatment
StartTreatment(patient_id) ==
    LET patient == IF PatientExists(patient_id) THEN patients[patient_id] ELSE NoRow
        assigned_room_id == patient.assigned_room_id
        reject(code) ==
            /\ erOp' = ErResult("start_treatment", patient_id, None, {}, code)
            /\ UNCHANGED patients
    IN
    IF ~patient.exists THEN reject(404)
    ELSE IF patient.status = "in_treatment" THEN reject(400)
    ELSE IF patient.status = "discharged" THEN reject(400)
    ELSE IF assigned_room_id = None THEN reject(400)
    ELSE IF ~RoomExists(assigned_room_id) THEN reject(400)
    ELSE IF rooms[assigned_room_id].current_patient_id # patient_id THEN reject(400)
    ELSE IF ProvidersWithPatient(patient_id) = {} THEN reject(400)
    ELSE /\ patients' = [patients EXCEPT ![patient_id].status = "in_treatment"]
         /\ erOp' = ErResult("start_treatment", patient_id, None, {}, 200)

start_treatment ==
    /\ \E patient_id \in PatientIds : StartTreatment(patient_id)
    /\ UNCHANGED <<rooms, providers, resourceGraph, heapVars, triageVars, labVars, wrVars, historyVars, graphVars, hashVars>>

\* DELETE /patients/{patient_id}/discharge, with release_room and
\* PatientService.discharge_patient
discharge_patient ==
    /\ \E patient_id \in PatientIds :
          IF ~PatientExists(patient_id)
          THEN /\ erOp' = ErResult("discharge", patient_id, None, {}, 404)
               /\ UNCHANGED <<patients, rooms>>
          ELSE LET room_id == patients[patient_id].assigned_room_id IN
               /\ rooms' = IF room_id # None /\ RoomExists(room_id)
                           THEN [rooms EXCEPT ![room_id] =
                                    [status |-> "cleaning", current_patient_id |-> None]]
                           ELSE rooms
               /\ patients' = [patients EXCEPT ![patient_id].status = "discharged"]
               /\ erOp' = ErResult("discharge", patient_id, None, {}, 200)
    /\ UNCHANGED <<providers, resourceGraph, heapVars, triageVars, labVars, wrVars, historyVars, graphVars, hashVars>>

\* POST /rooms/{room_id}/assign, with ResourceService.assign_room
assign_room ==
    /\ \E room_id \in RoomIds \cup {UnknownRoom}, patient_id \in PatientIds :
          IF ~PatientExists(patient_id)
          THEN /\ erOp' = ErResult("assign_room", patient_id, room_id, {}, 404)
               /\ UNCHANGED <<patients, rooms, resourceGraph>>
          ELSE IF ~RoomExists(room_id) \/ rooms[room_id].status # "available"
          THEN /\ erOp' = ErResult("assign_room", patient_id, room_id, {}, 400)
               /\ UNCHANGED <<patients, rooms, resourceGraph>>
          ELSE /\ rooms' = [rooms EXCEPT ![room_id] =
                               [status |-> "occupied", current_patient_id |-> patient_id]]
               /\ resourceGraph' = add_edge(resourceGraph, patient_id, room_id, 1)
               /\ patients' = [patients EXCEPT ![patient_id].assigned_room_id = room_id]
               /\ erOp' = ErResult("assign_room", patient_id, room_id, {}, 200)
    /\ UNCHANGED <<providers, heapVars, triageVars, labVars, wrVars, historyVars, graphVars, hashVars>>

room_never_taken(room_id, patient_id) == FALSE

\* room.current_patient_id and room.current_patient_id != patient_id
RoomTaken(room_id, patient_id) ==
    /\ rooms[room_id].current_patient_id # None
    /\ rooms[room_id].current_patient_id # patient_id

\* POST /resources/allocate.  current_patient_ids is a plain JSON column: an
\* append to a list that was loaded non-empty is an in-place change the
\* session may not write back, so for those providers both outcomes are taken.
allocate_resources ==
    /\ \E patient_id \in PatientIds,
          room_id \in RoomIds \cup {UnknownRoom},
          provider_ids \in SUBSET (ProviderIds \cup {UnknownProvider}) :
          IF ~PatientExists(patient_id) \/ ~RoomExists(room_id)
          THEN /\ erOp' = ErResult("allocate", patient_id, room_id, provider_ids, 404)
               /\ UNCHANGED <<patients, rooms, providers>>
          ELSE IF RoomTaken(room_id, patient_id)
          THEN /\ erOp' = ErResult("allocate", patient_id, room_id, provider_ids, 400)
               /\ UNCHANGED <<patients, rooms, providers>>
          ELSE LET found == {d \in provider_ids : ProviderExists(d)}
                   inplace == {d \in found :
                                  /\ providers[d].current_patient_ids # {}
                                  /\ patient_id \notin providers[d].current_patient_ids}
               IN
               /\ patients' = [patients EXCEPT
                                  ![patient_id].assigned_room_id = room_id,
                                  ![patient_id].status = "in_treatment"]
               /\ rooms' = [rooms EXCEPT ![room_id] =
                               [status |-> "occupied", current_patient_id |-> patient_id]]
               /\ \E lost \in SUBSET inplace :
                     providers' = [d \in ProviderIds |->
                         IF d \in found
                         THEN [is_available |-> "false",
                               current_patient_ids |->
                                   IF d \in lost THEN providers[d].current_patient_ids
                                   ELSE providers[d].current_patient_ids \cup {patient_id}]
                         ELSE providers[d]]
               /\ erOp' = ErResult("allocate", patient_id, room_id, provider_ids, 200)
    /\ UNCHANGED <<resourceGraph, heapVars, triageVars, labVars, wrVars, historyVars, graphVars, hashVars>>

\* POST /patients: create_patient stores the row under a new id, the score is
\* computed with waiting time 0, and TriageService.add_patient pushes the
\* patient under that id (PatientCreate has no waiting_time field).  An
\* exception after create_patient leaves the row and answers 500.
post_patients ==
    /\ Len(triage_heap) < MaxTriageLen
    /\ \E patient_id \in PatientIds, esi_level \in TriageEsiLevels,
          vital_signs \in TriageVitals :
          LET patient_data == PatientData(patient_id, esi_level, NoWaitingTime,
                                          vital_signs)
              priority_score == calculate_priority_score(esi_level, 0, vital_signs)
          IN /\ ~PatientExists(patient_id)
             /\ patients' = [patients EXCEPT ![patient_id] = NewRow]
             /\ IF priority_score.err # None
                THEN /\ triage_heap' = triage_heap
                     /\ erOp' = ErResult("post_patients", patient_id, None, {}, 500)
                ELSE /\ triage_heap' = HeapPush(triage_heap, priority_score.value,
                                                patient_id,
                                                ClinicalData(patient_data, 0))
                     /\ erOp' = ErResult("post_patients", patient_id, None, {}, 200)
    /\ UNCHANGED <<rooms, providers, resourceGraph, _local_counter, triageOp,
                   heapVars, labVars, wrVars, historyVars, graphVars, hashVars>>

\* GET /patients/triage/next for the result of triage_service.get_next_patient()
TriageNext(popped) ==
    /\ triage_heap' = popped.heap
    /\ IF popped.ret # TriageNone
       THEN /\ patients' = IF PatientExists(popped.ret.id)
                           THEN [patients EXCEPT
                                    ![popped.ret.id].status = "in_treatment"]
                           ELSE patients
            /\ erOp' = ErResult("triage_next", popped.ret.id, None, {}, 200)
       ELSE /\ patients' = patients
            /\ erOp' = ErResult("triage_next", None, None, {}, 200)

triage_next ==
    /\ TriageNext(TriagePop(triage_heap))
    /\ UNCHANGED <<rooms, providers, resourceGraph, _local_counter, triageOp,
                   heapVars, labVars, wrVars, historyVars, graphVars, hashVars>>

InitDb ==
    /\ rooms = [r \in RoomIds |-> SeedRoom]
    /\ providers = [d \in ProviderIds |-> SeedProvider]
    /\ resourceGraph = EmptyGraph
    /\ erOp = [op |-> "init", pid |-> None, code |-> 0, withProvider |-> FALSE,
               prev |-> None]

----------------------------------------------------------------------------
(* core/stack.py : Stack, as section 4.4 of the specification states it *)

\* pop() and peek() returning None
NoAction == 0

StackPush(s, item) == Append(s, item)
StackPop(s) ==
    IF s = <<>> THEN [stack |-> s, ret |-> NoAction]
    ELSE [stack |-> SubSeq(s, 1, Len(s) - 1), ret |-> s[Len(s)]]
StackPeek(s) == IF s = <<>> THEN NoAction ELSE s[Len(s)]
StackIsEmpty(s) == s = <<>>
StackClear(s) == <<>>

----------------------------------------------------------------------------
(* services/treatment_history_service.py : TreatmentHistoryService;        *)
(* models/treatment.py                                                     *)

\* the patients that treatment actions are recorded for
TreatedIds == {"p1", "p2"}

\* patient_id not in self.history_stacks
NoStack == [has |-> FALSE, items |-> <<>>]

\* a row of treatment_history.  The k-th row inserted gets the id k: the code
\* draws a fresh uuid, and the timestamp (the insertion time) orders the rows
\* as they were inserted.
TreatmentRow(action_id, patient_id) ==
    [id |-> action_id, patient_id |-> patient_id, is_undone |-> "false"]

\* the same rows ordered by timestamp descending
RECURSIVE active_rows_desc(_, _)
active_rows_desc(rows, patient_id) ==
    IF rows = <<>> THEN <<>>
    ELSE active_rows_desc(Tail(rows), patient_id)
         \o (IF Head(rows).patient_id = patient_id /\ Head(rows).is_undone = "false"
             THEN <<Head(rows)>> ELSE <<>>)

\* the rows of patient_id with is_undone == "false", ordered by timestamp
ActiveRows(rows, patient_id) ==
    SelectSeq(rows, LAMBDA t : t.patient_id = patient_id /\ t.is_undone = "false")

\* db.query(TreatmentHistory).filter(TreatmentHistory.id == action_id).first()
RowOf(rows, action_id) ==
    IF \E i \in 1..Len(rows) : rows[i].id = action_id
    THEN CHOOSE i \in 1..Len(rows) :
             /\ rows[i].id = action_id
             /\ \A j \in 1..(i - 1) : rows[j].id # action_id
    ELSE 0

rebuild_including_undone(stacks, rows, patient_id) ==
    LET found == SelectSeq(rows, LAMBDA t : t.patient_id = patient_id)
    IN IF found # <<>>
       THEN [stacks EXCEPT ![patient_id] =
                [has |-> TRUE, items |-> [i \in 1..Len(found) |-> found[i].id]]]
       ELSE stacks

_rebuild_stack(stacks, rows, patient_id) ==
    LET found == ActiveRows(rows, patient_id)
    IN IF found # <<>>
       THEN [stacks EXCEPT ![patient_id] =
                [has |-> TRUE, items |-> [i \in 1..Len(found) |-> found[i].id]]]
       ELSE stacks

\* the stacks as the first lines of undo_last_action and peek_last_action
\* leave them: rebuilt from the table when the patient's stack is missing or
\* empty
EnsureLoaded(patient_id) ==
    IF ~history_stacks[patient_id].has \/ StackIsEmpty(history_stacks[patient_id].items)
    THEN _rebuild_stack(history_stacks, treatments, patient_id)
    ELSE history_stacks

ThResult(op, patient_id, ret) == [op |-> op, pid |-> patient_id, ret |-> ret]

add_action_every_stack(patient_id) ==
    LET action_id == Len(treatments) + 1 IN
    /\ treatments' = Append(treatments, TreatmentRow(action_id, patient_id))
    /\ history_stacks' = [p \in TreatedIds |->
                             [has |-> TRUE,
                              items |-> StackPush(history_stacks[p].items, action_id)]]
    /\ thOp' = ThResult("add", patient_id, action_id)

AddAction(patient_id) ==
    LET action_id == Len(treatments) + 1 IN
    /\ treatments' = Append(treatments, TreatmentRow(action_id, patient_id))
    /\ history_stacks' = [history_stacks EXCEPT ![patient_id] =
                             [has |-> TRUE, items |-> StackPush(@.items, action_id)]]
    /\ thOp' = ThResult("add", patient_id, action_id)

undo_oldest_first(patient_id) ==
    LET stacks == EnsureLoaded(patient_id) IN
    IF ~stacks[patient_id].has \/ StackIsEmpty(stacks[patient_id].items)
    THEN /\ history_stacks' = stacks
         /\ thOp' = ThResult("undo", patient_id, NoAction)
         /\ UNCHANGED treatments
    ELSE LET action_id == Head(stacks[patient_id].items)
             i == RowOf(treatments, action_id)
         IN /\ history_stacks' = [stacks EXCEPT ![patient_id].items = Tail(@)]
            /\ treatments' = [treatments EXCEPT ![i].is_undone = "true"]
            /\ thOp' = ThResult("undo", patient_id, action_id)

UndoLastAction(patient_id) ==
    LET stacks == EnsureLoaded(patient_id) IN
    IF ~stacks[patient_id].has \/ StackIsEmpty(stacks[patient_id].items)
    THEN /\ history_stacks' = stacks
         /\ thOp' = ThResult("undo", patient_id, NoAction)
         /\ UNCHANGED treatments
    ELSE LET popped == StackPop(stacks[patient_id].items)
             action_id == popped.ret
             i == RowOf(treatments, action_id)
         IN /\ history_stacks' = [stacks EXCEPT ![patient_id].items = popped.stack]
            /\ IF i # 0
               THEN /\ treatments' = [treatments EXCEPT ![i].is_undone = "true"]
                    /\ thOp' = ThResult("undo", patient_id, action_id)
               ELSE /\ UNCHANGED treatments
                    /\ thOp' = ThResult("undo", patient_id, NoAction)

add_action ==
    /\ Len(treatments) < MaxActions
    /\ \E patient_id \in TreatedIds : AddAction(patient_id)
    /\ UNCHANGED <<heapVars, triageVars, labVars, wrVars, dbVars, graphVars, hashVars>>

undo_last_action ==
    /\ \E patient_id \in TreatedIds : UndoLastAction(patient_id)
    /\ UNCHANGED <<heapVars, triageVars, labVars, wrVars, dbVars, graphVars, hashVars>>

peek_last_action ==
    /\ \E patient_id \in TreatedIds :
          LET stacks == EnsureLoaded(patient_id) IN
          /\ history_stacks' = stacks
          /\ thOp' = ThResult("peek", patient_id,
                              IF ~stacks[patient_id].has THEN NoAction
                              ELSE StackPeek(stacks[patient_id].items))
    /\ UNCHANGED <<treatments, heapVars, triageVars, labVars, wrVars, dbVars, graphVars, hashVars>>

clear_history ==
    /\ \E patient_id \in TreatedIds :
          /\ history_stacks' =
                IF history_stacks[patient_id].has
                THEN [history_stacks EXCEPT ![patient_id].items = StackClear(@)]
                ELSE history_stacks
          /\ thOp' = ThResult("clear", patient_id, NoAction)
    /\ UNCHANGED <<treatments, heapVars, triageVars, labVars, wrVars, dbVars, graphVars, hashVars>>

\* the process starts again: a new TreatmentHistoryService over the same table
cold_start ==
    /\ history_stacks' = [p \in TreatedIds |-> NoStack]
    /\ thOp' = ThResult("start", None, NoAction)
    /\ UNCHANGED <<treatments, heapVars, triageVars, labVars, wrVars, dbVars, graphVars, hashVars>>

InitHistory ==
    /\ history_stacks = [p \in TreatedIds |-> NoStack]
    /\ treatments = <<>>
    /\ thOp = ThResult("start", None, NoAction)

----------------------------------------------------------------------------
(* core/hash_table.py : HashTable *)

\* keys are small non-negative integers, for which hash(key) == key
HashKeys == 0..MaxKey
HashValues == {None, "v1", "v2"}

_hash(key) == key % HashSize

\* the bucket table[_hash(key)]
BucketOf(t, key) == At(t, _hash(key))

\* the index i of the first (k, v) of the bucket with k == key, or -1
IndexInBucket(bucket, key) ==
    IF \E i \in 0..(Len(bucket) - 1) : At(bucket, i).key = key
    THEN CHOOSE i \in 0..(Len(bucket) - 1) :
            /\ At(bucket, i).key = key
            /\ \A j \in 0..(i - 1) : At(bucket, j).key # key
    ELSE -1

\* insert(key, value): [table, count] afterwards
HashInsert(t, c, key, value) ==
    LET bucket == BucketOf(t, key)
        i == IndexInBucket(bucket, key)
    IN IF i # -1
       THEN [table |-> Put(t, _hash(key),
                           Put(bucket, i, [key |-> key, value |-> value])),
             count |-> c]
       ELSE [table |-> Put(t, _hash(key),
                           Append(bucket, [key |-> key, value |-> value])),
             count |-> c + 1]

\* get(key): the value stored, None when there is none
HashGet(t, key) ==
    LET bucket == BucketOf(t, key)
        i == IndexInBucket(bucket, key)
    IN IF i # -1 THEN At(bucket, i).value ELSE None

\* delete(key): [table, count] afterwards and the value returned
HashDelete(t, c, key) ==
    LET bucket == BucketOf(t, key)
        i == IndexInBucket(bucket, key)
    IN IF i # -1
       THEN [table |-> Put(t, _hash(key),
                           SubSeq(bucket, 1, i) \o SubSeq(bucket, i + 2, Len(bucket))),
             count |-> c - 1, ret |-> TRUE]
       ELSE [table |-> t, count |-> c, ret |-> FALSE]

\* key in table
Contains(t, key) == HashGet(t, key) # None

\* len(table)
HashLen(c) == c

\* keys(), as a set
StoredKeys(t) ==
    {key \in HashKeys : \E b \in 1..Len(t) : \E i \in 1..Len(t[b]) : t[b][i].key = key}

HashCall(op, key, value, ret) ==
    [op |-> op, key |-> key, value |-> value, ret |-> ret]

hash_insert ==
    /\ \E key \in HashKeys, value \in HashValues :
          LET r == HashInsert(table, count, key, value) IN
          /\ table' = r.table
          /\ count' = r.count
          /\ hashOp' = HashCall("insert", key, value, FALSE)
    /\ UNCHANGED <<heapVars, triageVars, labVars, wrVars, dbVars, historyVars, graphVars>>

hash_delete ==
    /\ \E key \in HashKeys :
          LET r == HashDelete(table, count, key) IN
          /\ table' = r.table
          /\ count' = r.count
          /\ hashOp' = HashCall("delete", key, None, r.ret)
    /\ UNCHANGED <<heapVars, triageVars, labVars, wrVars, dbVars, historyVars, graphVars>>

\* HashTable(size): size empty buckets
InitHash ==
    /\ table = [b \in 1..HashSize |-> <<>>]
    /\ count = 0
    /\ hashOp = HashCall("init", 0, None, FALSE)

----------------------------------------------------------------------------
(* Initial states and specifications *)

InitHeap ==
    /\ heap = <<>>
    /\ heapOp = [op |-> "init", ret |-> NoEntry, found |-> FALSE, prev |-> NoPop]

InitLab ==
    /\ labQueue = <<>>
    /\ labOp = [op |-> "init", ret |-> None]

\* nothing created yet: empty structures, seeded rooms and providers, no patient
Init ==
    /\ InitHeap /\ InitLab /\ InitWaitingRoom /\ InitDb /\ InitHistory /\ InitGraph /\ InitHash
    /\ InitTriage
    /\ patients = [p \in PatientIds |-> NoRow]

NextHeap == Push \/ Pop \/ UpdatePriority

SpecHeap == Init /\ [][NextHeap]_vars

NextTriage == AddPatient \/ triage_get_next_patient

SpecTriage == Init /\ [][NextTriage]_vars

\* calculate_priority_score as a function of its three arguments
InitScore ==
    /\ InitHeap /\ InitLab /\ InitWaitingRoom /\ InitDb /\ InitHistory /\ InitGraph /\ InitHash
    /\ patients = [p \in PatientIds |-> NoRow]
    /\ triage_heap = <<>>
    /\ _local_counter = 0
    /\ \E esi_level \in ESILevels, waiting_time \in Waits,
          vital_signs \in VitalSigns :
          triageOp = TriageResult("arguments",
                                  PatientData(None, esi_level, waiting_time,
                                              vital_signs),
                                  None, TriageNone, 0, None)

SpecScore == InitScore /\ [][call_calculate_priority_score]_vars

\* push, pop and update_priority(patient_id, new_priority) with
\* new_clinical_data left at its default
UpdatePriorityOnly ==
    \E id \in HeapIds, p \in Priorities : update_priority(id, p, None)

NextEntries == Push \/ Pop \/ UpdatePriorityOnly

SpecEntries == Init /\ [][NextEntries]_vars

\* update_priority as a function of the heap it is called on: the heaps that
\* at most MaxUpdateLen pushes build, then any sequence of updates
RECURSIVE PushedHeaps(_)
PushedHeaps(n) ==
    IF n = 0 THEN {<<>>}
    ELSE PushedHeaps(n - 1) \cup
         {HeapPush(h, p, id, d) :
             h \in PushedHeaps(n - 1), p \in Priorities, id \in HeapIds,
             d \in Payloads}

InitUpdate ==
    /\ heap \in PushedHeaps(MaxUpdateLen)
    /\ heapOp = [op |-> "init", ret |-> NoEntry, found |-> FALSE, prev |-> NoPop]
    /\ InitLab /\ InitWaitingRoom /\ InitDb /\ InitHistory /\ InitGraph /\ InitHash
    /\ InitTriage
    /\ patients = [p \in PatientIds |-> NoRow]

SpecUpdate == InitUpdate /\ [][UpdatePriority]_vars

NextQueue == schedule_lab_test \/ get_next_lab_test \/ peek_next_lab_test

SpecQueue == Init /\ [][NextQueue]_vars

\* the waiting room over a patients table that holds every patient of PatientIds
InitWR ==
    /\ InitHeap /\ InitLab /\ InitWaitingRoom /\ InitDb /\ InitHistory /\ InitGraph /\ InitHash
    /\ InitTriage
    /\ patients = [p \in PatientIds |-> NewRow]

NextWR ==
    \/ add_to_waiting_room
    \/ get_next_patient
    \/ remove_patient
    \/ wr_update_priority
    \/ clear_queue

SpecWR == InitWR /\ [][NextWR]_vars

\* the waiting room with the remove and estimate handlers of main.py
NextWaitingRoomRoutes ==
    \/ add_to_waiting_room
    \/ get_next_patient
    \/ remove_from_waiting_room
    \/ estimate_wait_time

SpecWaitingRoomRoutes == InitWR /\ [][NextWaitingRoomRoutes]_vars

NextHash == hash_insert \/ hash_delete

SpecHash == Init /\ [][NextHash]_vars

\* the handlers over a patients table that holds p1 and p2 as create_patient
\* stored them, and no p3
InitER ==
    /\ InitHeap /\ InitLab /\ InitWaitingRoom /\ InitDb /\ InitHistory /\ InitGraph /\ InitHash
    /\ InitTriage
    /\ patients = [p \in PatientIds |-> IF p = "p3" THEN NoRow ELSE NewRow]

NextER ==
    \/ start_treatment
    \/ discharge_patient
    \/ assign_room
    \/ allocate_resources

SpecER == InitER /\ [][NextER]_vars

\* admission, triage and discharge over a patients table that starts empty
NextAdmission ==
    \/ post_patients
    \/ triage_next
    \/ discharge_patient

SpecAdmission == Init /\ [][NextAdmission]_vars

\* the treatment history of patients who all have a row
InitTH ==
    /\ InitHeap /\ InitLab /\ InitWaitingRoom /\ InitDb /\ InitHistory /\ InitGraph /\ InitHash
    /\ InitTriage
    /\ patients = [p \in PatientIds |-> NewRow]

NextTH ==
    \/ add_action
    \/ undo_last_action
    \/ peek_last_action
    \/ clear_history
    \/ cold_start

SpecTH == InitTH /\ [][NextTH]_vars

NextGraph ==
    \/ call_add_vertex
    \/ call_add_edge
    \/ call_get_neighbors
    \/ call_get_node_connections
    \/ call_bfs
    \/ call_dfs
    \/ call_shortest_path

SpecGraph == Init /\ [][NextGraph]_vars

\* a Graph built with unit weights, loops included, and its degree queries
NextDegree ==
    \/ call_add_vertex
    \/ call_add_edge_default
    \/ call_find_bottlenecks
    \/ call_get_node_connections

SpecDegree == Init /\ [][NextDegree]_vars

----------------------------------------------------------------------------
(* Claims about MaxHeap, checked under SpecHeap *)

\* C1: after any sequence of push, pop and update_priority, every index i > 0
\* of the backing array has heap[i].priority <= heap[parent(i)].priority.
C1_HeapInvariant ==
    \A i \in 1..(Len(heap) - 1) :
        At(heap, i).priority <= At(heap, _parent(i)).priority

\* an update_priority that found its entry in a heap of three or more entries
\* and left an entry of lower priority than the root below it
C1_Witness ==
    /\ heapOp.op = "update" /\ heapOp.found
    /\ Len(heap) >= 3
    /\ \E i \in 1..(Len(heap) - 1) : At(heap, i).priority < At(heap, 0).priority
    /\ \E i \in 1..(Len(heap) - 1) : At(heap, i).priority = At(heap, 0).priority

\* C2: consecutive pops return entries in non-increasing priority order, and
\* the entry a pop returns has the maximum priority of the entries that were
\* in the heap (no entry left in the heap has a greater priority).
C2_PopOrder ==
    (heapOp.op = "pop" /\ heapOp.ret # NoEntry) =>
        /\ heapOp.prev # NoPop => heapOp.ret.priority <= heapOp.prev
        /\ \A i \in 0..(Len(heap) - 1) :
              At(heap, i).priority <= heapOp.ret.priority

\* a second pop in a row that returned a strictly smaller priority than the
\* first and left entries in the heap
C2_Witness ==
    /\ heapOp.op = "pop" /\ heapOp.ret # NoEntry
    /\ heapOp.prev # NoPop /\ heapOp.ret.priority < heapOp.prev
    /\ Len(heap) >= 2


----------------------------------------------------------------------------
(* Claims about PriorityQueue, checked under SpecQueue *)

\* q without its entry at 0-based index i
QWithout(q, i) == SubSeq(q, 1, i) \o SubSeq(q, i + 2, Len(q))

\* C3: dequeue on a non-empty queue removes the entry it returns (the size
\* decreases by exactly one and the queue afterwards is the queue before
\* without one entry carrying the returned item); on an empty queue it
\* returns None and leaves the queue unchanged.
C3_DequeueRemoves ==
    [][labOp'.op = "dequeue" =>
          IF Len(labQueue) = 0
          THEN labOp'.ret = None /\ labQueue' = labQueue
          ELSE /\ Len(labQueue') = Len(labQueue) - 1
               /\ \E i \in 0..(Len(labQueue) - 1) :
                     /\ At(labQueue, i).item = labOp'.ret
                     /\ labQueue' = QWithout(labQueue, i)]_vars

----------------------------------------------------------------------------
(* Claims about WaitingRoomService, checked under SpecWR *)

\* the score passed to the latest add_to_waiting_room of patient_id: the
\* queue holds its negation
PassedScore(q, patient_id) ==
    LET last == CHOOSE i \in 1..Len(q) :
                    /\ q[i].item = patient_id
                    /\ \A j \in (i + 1)..Len(q) : q[j].item # patient_id
    IN -(q[last].priority)

\* C4: get_next_patient returns a patient whose score, as passed to
\* add_to_waiting_room, is the highest among the patients in the waiting room.
C4_NextReturnsHighestScore ==
    [][(wrOp'.op = "next" /\ wrOp'.ret # None) =>
          \A c \in CacheIds(wrCache) :
              PassedScore(wrQueue, c) <= PassedScore(wrQueue, wrOp'.ret)]_vars

\* C5: add_to_waiting_room for an id already in the membership cache raises
\* ValueError and leaves the backing queue and the cache unchanged.
C5_DuplicateAddRejected ==
    [][(wrOp'.op = "add" /\ wrOp'.pid \in CacheIds(wrCache)) =>
          /\ wrOp'.err = "ValueError"
          /\ wrQueue' = wrQueue
          /\ wrCache' = wrCache]_vars

\* an add of a patient who has a row and is in the cache was rejected
C5_Witness ==
    /\ wrOp.op = "add" /\ wrOp.err = "ValueError"
    /\ PatientExists(wrOp.pid)
    /\ wrOp.pid \in CacheIds(wrCache)
    /\ Len(wrQueue) = Len(wrCache)

\* C6: get_next_patient never returns an id that is not in the membership
\* cache at the time of the call.
C6_NextOnlyCached ==
    [][(wrOp'.op = "next" /\ wrOp'.ret # None) =>
          wrOp'.ret \in CacheIds(wrCache)]_vars

\* C7: with no further add, repeated get_next_patient calls return each
\* patient id at most once (so the queue drains after at most n results).
C7_EachIdAtMostOnce ==
    wrOp.op = "next" => ~wrOp.again

\* C10: positions are 1-indexed, and a cached patient whose cached priority
\* is strictly greater than every other cached patient's has position 1 and
\* estimated wait 0.
C10_HighestIsFirst ==
    \A i \in 1..Len(wrCache) :
        /\ _get_position_in_queue(wrCache, wrCache[i].id) \in 1..Len(wrCache)
        /\ (\A j \in 1..Len(wrCache) :
               j # i => wrCache[i].priority > wrCache[j].priority)
           => /\ _get_position_in_queue(wrCache, wrCache[i].id) = 1
              /\ get_estimated_wait_time(wrCache, wrCache[i].id) = 0

\* two cached patients, the one added later has the strictly greater
\* priority, and the add reported position 1 and wait 0 for it
C10_Witness ==
    /\ Len(wrCache) = 2
    /\ wrCache[2].priority > wrCache[1].priority
    /\ wrOp.op = "add" /\ wrOp.pid = wrCache[2].id
    /\ wrOp.position = 1 /\ wrOp.wait = 0

\* the ranks by priority descending that the cache entry at index i can hold:
\* after every entry of strictly greater priority, not after any of lower
RanksOf(cache, i) ==
    LET greater == {j \in 1..Len(cache) : cache[j].priority > cache[i].priority}
        notLower == {j \in 1..Len(cache) : cache[j].priority >= cache[i].priority}
    IN (Cardinality(greater) + 1)..Cardinality(notLower)

\* C11: get_estimated_wait_time returns (position - 1) * 30 for every cached
\* patient, position being the patient's 1-indexed rank by cached priority
\* descending (two cached patients never share a rank), and None for every
\* id that is not in the cache.
C11_EstimatedWait ==
    /\ \A i \in 1..Len(wrCache) :
          /\ \E position \in RanksOf(wrCache, i) :
                get_estimated_wait_time(wrCache, wrCache[i].id) = (position - 1) * 30
          /\ \A j \in 1..Len(wrCache) :
                j # i => get_estimated_wait_time(wrCache, wrCache[j].id)
                            # get_estimated_wait_time(wrCache, wrCache[i].id)
    /\ \A patient_id \in (PatientIds \cup {UnknownId}) \ CacheIds(wrCache) :
          get_estimated_wait_time(wrCache, patient_id) = NoWait

\* two cached patients, the one added first has the strictly lower priority
\* after an update and waits 30, and a third patient is not cached
C11_Witness ==
    /\ Len(wrCache) = 2
    /\ wrCache[1].priority < wrCache[2].priority
    /\ wrOp.op = "update" /\ wrOp.pid = wrCache[1].id /\ wrOp.wait = 30
    /\ get_estimated_wait_time(wrCache, wrCache[2].id) = 0
    /\ \E patient_id \in PatientIds : patient_id \notin CacheIds(wrCache)

\* C12: remove_patient returns True exactly when the id is in the membership
\* cache before the call and then deletes exactly that cache entry; it
\* returns False otherwise, leaving the cache unchanged; in both cases the
\* backing queue is unchanged.
C12_RemoveFrame ==
    [][wrOp'.op = "remove" =>
          /\ wrOp'.ret = (IF wrOp'.pid \in CacheIds(wrCache) THEN "True" ELSE "False")
          /\ wrCache' = SelectSeq(wrCache, LAMBDA e : e.id # wrOp'.pid)
          /\ Len(wrCache') = Len(wrCache) -
                                (IF wrOp'.pid \in CacheIds(wrCache) THEN 1 ELSE 0)
          /\ wrQueue' = wrQueue]_vars

\* the patient added second was removed: True, the patient added first is
\* still cached and the backing queue still holds both entries
C12_Witness ==
    /\ wrOp.op = "remove" /\ wrOp.ret = "True"
    /\ Len(wrQueue) = 2 /\ wrQueue[2].item = wrOp.pid
    /\ Len(wrCache) = 1 /\ wrCache[1].id = wrQueue[1].item
    /\ wrOp.pid \notin CacheIds(wrCache)

----------------------------------------------------------------------------
(* Claims about the start-treatment handler, checked under SpecER *)

\* C8: when POST /resources/allocate has succeeded for a waiting patient with
\* a room and at least one existing provider, a PUT start-treatment for the
\* same patient that follows it succeeds: 200, status in_treatment.
C8_StartAfterAllocate ==
    [][(/\ erOp.op = "allocate" /\ erOp.code = 200
        /\ erOp.prev = "waiting" /\ erOp.withProvider
        /\ erOp'.op = "start_treatment" /\ erOp'.pid = erOp.pid)
       => /\ erOp'.code = 200
          /\ patients'[erOp.pid].status = "in_treatment"]_vars

----------------------------------------------------------------------------
(* Claims about TreatmentHistoryService, checked under SpecTH *)

\* the action of patient_id recorded latest among those recorded before
\* action_id and not undone in rows; NoAction when there is none
LatestActiveBefore(rows, patient_id, action_id) ==
    LET older == {i \in 1..Len(rows) :
                     /\ rows[i].patient_id = patient_id
                     /\ rows[i].is_undone = "false"
                     /\ i < RowOf(rows, action_id)}
    IN IF older = {} THEN NoAction
       ELSE rows[CHOOSE i \in older : \A j \in older : j <= i].id

\* C13: for one patient, undo_last_action undoes recorded actions in strict
\* LIFO order: an undo that follows the recording of b returns b, and an undo
\* that follows an undo which returned b returns the action recorded latest
\* before b that is not undone (a when a then b were recorded), or null when
\* there is none.
C13_UndoLifo ==
    [][(thOp'.op = "undo" /\ thOp'.pid = thOp.pid) =>
          /\ thOp.op = "add" => thOp'.ret = thOp.ret
          /\ (thOp.op = "undo" /\ thOp.ret # NoAction) =>
                thOp'.ret = LatestActiveBefore(treatments, thOp.pid, thOp.ret)]_vars

\* the patient's two actions are both undone and the undo called last returned
\* the one recorded first
C13_Witness ==
    /\ thOp.op = "undo" /\ thOp.ret # NoAction
    /\ \E i, j \in 1..Len(treatments) :
          /\ i < j
          /\ treatments[i].id = thOp.ret
          /\ treatments[i].patient_id = thOp.pid
          /\ treatments[j].patient_id = thOp.pid
          /\ treatments[i].is_undone = "true"
          /\ treatments[j].is_undone = "true"
    /\ history_stacks[thOp.pid].items = <<>>

\* C14: undo_last_action for a patient with no entry on the in-memory stack
\* and no persisted record with is_undone false returns null and changes
\* neither any stack nor any persisted record.
C14_NothingToUndo ==
    [][(/\ thOp'.op = "undo"
        /\ history_stacks[thOp'.pid].items = <<>>
        /\ ActiveRows(treatments, thOp'.pid) = <<>>)
       => /\ thOp'.ret = NoAction
          /\ history_stacks' = history_stacks
          /\ treatments' = treatments]_vars

\* an undo returned null for a patient whose only recorded action is undone,
\* while another patient still has an action on the stack
C14_Witness ==
    /\ thOp.op = "undo" /\ thOp.ret = NoAction
    /\ \E i \in 1..Len(treatments) :
          treatments[i].patient_id = thOp.pid /\ treatments[i].is_undone = "true"
    /\ ActiveRows(treatments, thOp.pid) = <<>>
    /\ \E q \in TreatedIds \ {thOp.pid} :
          /\ history_stacks[q].items # <<>>
          /\ ActiveRows(treatments, q) # <<>>

----------------------------------------------------------------------------
(* Claims about Graph, checked under SpecGraph *)

\* what the call named by graphOp returns
BfsResult == bfs(adjacency_list, graphOp.start, graphOp.max_depth)
DfsResult == dfs(adjacency_list, graphOp.start, graphOp.end)
PathResult == shortest_path(adjacency_list, graphOp.start, graphOp.end)

Adjacent(g, u, v) == \E i \in 1..Len(g.adj[u]) : g.adj[u][i][1] = v

\* the vertices joined to a vertex of seen by a chain of edges
RECURSIVE ReachFrom(_, _)
ReachFrom(g, seen) ==
    LET more == seen \cup {v \in Vertices : \E u \in seen : Adjacent(g, u, v)}
    IN IF more = seen THEN seen ELSE ReachFrom(g, more)

Reachable(g, start) == ReachFrom(g, {start})

\* the least number of edges on a chain from a vertex of seen to v, plus k
RECURSIVE HopsFrom(_, _, _, _)
HopsFrom(g, seen, v, k) ==
    IF v \in seen THEN k
    ELSE HopsFrom(g, seen \cup {x \in Vertices : \E u \in seen : Adjacent(g, u, x)},
                  v, k + 1)

HopDistance(g, start, v) == HopsFrom(g, {start}, v, 0)

\* the sequences of distinct vertices from start to end that follow edges
SimplePaths(g, start, end) ==
    UNION {{p \in [1..n -> Vertices] :
               /\ p[1] = start /\ p[n] = end
               /\ \A i, j \in 1..n : i # j => p[i] # p[j]
               /\ \A i \in 1..(n - 1) : Adjacent(g, p[i], p[i + 1])}
           : n \in 1..Cardinality(Vertices)}

\* the least weight of an edge between u and v
EdgeWeight(g, u, v) ==
    LET ws == {g.adj[u][i][2] : i \in {k \in 1..Len(g.adj[u]) : g.adj[u][k][1] = v}}
    IN CHOOSE w \in ws : \A x \in ws : w <= x

RECURSIVE PathWeight(_, _, _)
PathWeight(g, p, n) ==
    IF n <= 1 THEN 0
    ELSE PathWeight(g, p, n - 1) + EdgeWeight(g, p[n - 1], p[n])

NoRepeats(seq) == \A i, j \in 1..Len(seq) : i # j => seq[i] # seq[j]

\* C15: for existing start and end that are connected (all weights are
\* non-negative), shortest_path returns a sequence that begins with start,
\* ends with end, follows existing edges and has the minimum total weight
\* among all start-end paths.
C15_ShortestPathMinimal ==
    (/\ graphOp.op = "shortest_path"
     /\ HasVertex(adjacency_list, graphOp.start)
     /\ HasVertex(adjacency_list, graphOp.end)
     /\ graphOp.end \in Reachable(adjacency_list, graphOp.start))
    => LET path == PathResult.path
           n == Len(path)
       IN /\ PathResult.err = None
          /\ n >= 1 /\ path[1] = graphOp.start /\ path[n] = graphOp.end
          /\ \A i \in 1..(n - 1) : Adjacent(adjacency_list, path[i], path[i + 1])
          /\ \A p \in SimplePaths(adjacency_list, graphOp.start, graphOp.end) :
                PathWeight(adjacency_list, path, n)
                   <= PathWeight(adjacency_list, p, Cardinality(DOMAIN p))

\* start and end are joined by an edge of weight 1 and by two edges of weight
\* 0 through the third vertex, and the path returned goes through it
C15_Witness ==
    /\ graphOp.op = "shortest_path"
    /\ Adjacent(adjacency_list, graphOp.start, graphOp.end)
    /\ EdgeWeight(adjacency_list, graphOp.start, graphOp.end) = 1
    /\ Len(PathResult.path) = 3
    /\ PathWeight(adjacency_list, PathResult.path, 3) = 0

\* C16: for an existing start, shortest_path(start, start) is [start], and
\* shortest_path(start, end) is the empty sequence, not an error, when end is
\* absent from the graph or lies in another connected component.
C16_TrivialAndNoPath ==
    (graphOp.op = "shortest_path" /\ HasVertex(adjacency_list, graphOp.start))
    => /\ PathResult.err = None
       /\ graphOp.end = graphOp.start => PathResult.path = <<graphOp.start>>
       /\ (\/ ~HasVertex(adjacency_list, graphOp.end)
           \/ graphOp.end \notin Reachable(adjacency_list, graphOp.start))
          => PathResult.path = <<>>

\* start has an edge, end is a vertex of the graph in another component, and
\* the call returned the empty sequence
C16_Witness ==
    /\ graphOp.op = "shortest_path"
    /\ get_node_connections(adjacency_list, graphOp.start) > 0
    /\ HasVertex(adjacency_list, graphOp.end)
    /\ graphOp.end \notin Reachable(adjacency_list, graphOp.start)
    /\ PathResult = [path |-> <<>>, err |-> None]

\* C17: every Graph lookup given a vertex that is absent from the graph
\* returns an empty or zero result and never raises: get_neighbors, bfs, dfs,
\* get_node_connections, and shortest_path when the start vertex is absent.
C17_AbsentVertexSoftFail ==
    ~HasVertex(adjacency_list, graphOp.start) =>
        /\ graphOp.op = "get_neighbors" =>
              get_neighbors(adjacency_list, graphOp.start) = <<>>
        /\ graphOp.op = "get_node_connections" =>
              get_node_connections(adjacency_list, graphOp.start) = 0
        /\ graphOp.op = "bfs" => BfsResult = <<>>
        /\ graphOp.op = "dfs" => DfsResult = <<>>
        /\ graphOp.op = "shortest_path" =>
              PathResult = [path |-> <<>>, err |-> None]

\* C18: bfs(start) with no depth limit returns every vertex reachable from
\* start exactly once, start first with depth 0, each vertex with its minimum
\* hop count from start as depth, and depths non-decreasing.
C18_BfsLevels ==
    (/\ graphOp.op = "bfs" /\ graphOp.max_depth = NoLimit
     /\ HasVertex(adjacency_list, graphOp.start))
    => LET result == BfsResult
           n == Len(result)
       IN /\ {result[i][1] : i \in 1..n} = Reachable(adjacency_list, graphOp.start)
          /\ \A i, j \in 1..n : i # j => result[i][1] # result[j][1]
          /\ result[1] = <<graphOp.start, 0>>
          /\ \A i \in 1..n :
                result[i][2] = HopDistance(adjacency_list, graphOp.start, result[i][1])
          /\ \A i \in 1..(n - 1) : result[i][2] <= result[i + 1][2]

\* an unlimited bfs over a triangle (every vertex adjacent to both others)
\* returned the two other vertices at depth 1
C18_Witness ==
    /\ graphOp.op = "bfs" /\ graphOp.max_depth = NoLimit
    /\ \A u, v \in Vertices : u # v => Adjacent(adjacency_list, u, v)
    /\ Len(BfsResult) = 3
    /\ BfsResult[2][2] = 1 /\ BfsResult[3][2] = 1

\* C19: bfs(start, max_depth=d) returns exactly the vertices whose minimum
\* hop distance from start is at most d, each once, with that distance as
\* depth, and no vertex at a greater distance.
C19_BfsDepthLimit ==
    (/\ graphOp.op = "bfs" /\ graphOp.max_depth # NoLimit
     /\ HasVertex(adjacency_list, graphOp.start))
    => LET result == BfsResult
           n == Len(result)
       IN /\ {result[i][1] : i \in 1..n} =
                {v \in Reachable(adjacency_list, graphOp.start) :
                    HopDistance(adjacency_list, graphOp.start, v) <= graphOp.max_depth}
          /\ \A i, j \in 1..n : i # j => result[i][1] # result[j][1]
          /\ \A i \in 1..n :
                result[i][2] = HopDistance(adjacency_list, graphOp.start, result[i][1])

\* on a line of three vertices, bfs from one end with max_depth 1 returned
\* the end at depth 0 and the middle at depth 1, not the far end
C19_Witness ==
    /\ graphOp.op = "bfs" /\ graphOp.max_depth = 1
    /\ \E far \in Vertices :
          /\ far \in Reachable(adjacency_list, graphOp.start)
          /\ HopDistance(adjacency_list, graphOp.start, far) = 2
    /\ Len(BfsResult) = 2
    /\ BfsResult[1] = <<graphOp.start, 0>>
    /\ BfsResult[2][2] = 1

----------------------------------------------------------------------------
(* Claims about the degrees of Graph, checked under SpecDegree *)

BottleneckResult == find_bottlenecks(adjacency_list)

\* the 1-based place of vertex among the keys of adjacency_list
KeyIndex(g, vertex) == CHOOSE i \in 1..Len(g.order) : g.order[i] = vertex

\* C21: find_bottlenecks returns every vertex exactly once paired with the
\* length of its adjacency list (a self-loop counts twice, a multi-edge once
\* per duplicate), by degree descending and, for equal degrees, in vertex
\* insertion order; get_node_connections(v) is that degree, and 0 for an
\* absent vertex.
C21_Bottlenecks ==
    LET g == adjacency_list
        result == BottleneckResult
        n == Len(result)
    IN /\ graphOp.op = "find_bottlenecks" =>
             /\ n = Len(g.order)
             /\ {result[i][1] : i \in 1..n} = {g.order[i] : i \in 1..Len(g.order)}
             /\ \A i \in 1..n : result[i][2] = Len(g.adj[result[i][1]])
             /\ \A i \in 1..(n - 1) :
                   \/ result[i][2] > result[i + 1][2]
                   \/ /\ result[i][2] = result[i + 1][2]
                      /\ KeyIndex(g, result[i][1]) < KeyIndex(g, result[i + 1][1])
       /\ graphOp.op = "get_node_connections" =>
             IF HasVertex(g, graphOp.start)
             THEN \E i \in 1..n :
                     result[i] = <<graphOp.start,
                                   get_node_connections(g, graphOp.start)>>
             ELSE get_node_connections(g, graphOp.start) = 0

\* find_bottlenecks on a graph where a vertex with a self-loop and a double
\* edge comes first, and two vertices of equal degree follow in insertion
\* order, which is not their name order
C21_Witness ==
    /\ graphOp.op = "find_bottlenecks"
    /\ Len(BottleneckResult) = 3
    /\ Adjacent(adjacency_list, BottleneckResult[1][1], BottleneckResult[1][1])
    /\ BottleneckResult[1][2] = 4
    /\ BottleneckResult[2][2] = BottleneckResult[3][2]
    /\ Rank(BottleneckResult[2][1]) > Rank(BottleneckResult[3][1])

----------------------------------------------------------------------------
(* Claims about the shape of adjacency_list, checked under SpecGraph        *)

\* the number of entries (v, w) in the adjacency list of u
Entries(g, u, v, w) ==
    Len(SelectSeq(g.adj[u], LAMBDA e : e = <<v, w>>))

\* C22: after any sequence of add_vertex and add_edge calls the graph is
\* closed and symmetric: every vertex named in an adjacency entry is a key
\* of adjacency_list, and for two different vertices u and v and every
\* weight w the adjacency list of u holds as many entries (v, w) as the
\* adjacency list of v holds entries (u, w).
C22_SymmetricClosed ==
    LET g == adjacency_list IN
    /\ \A u \in Vertices : \A i \in 1..Len(g.adj[u]) :
          HasVertex(g, u) /\ HasVertex(g, g.adj[u][i][1])
    /\ \A u \in Vertices : \A v \in Vertices \ {u} : \A w \in Weights :
          Entries(g, u, v, w) = Entries(g, v, u, w)

\* two vertices joined by two edges of different weight, a third vertex
\* added on its own
C22_Witness ==
    LET g == adjacency_list IN
    /\ graphOp.op = "add_vertex"
    /\ \E u \in Vertices : \E v \in Vertices \ {u} :
          /\ Entries(g, u, v, 0) = 1 /\ Entries(g, u, v, 1) = 1
          /\ \E x \in Vertices \ {u, v} : HasVertex(g, x) /\ g.adj[x] = <<>>

----------------------------------------------------------------------------
(* Claims about MaxHeap.update_priority, checked under SpecUpdate           *)

\* the sequence without its element at position k (from 1)
Without(h, k) == SubSeq(h, 1, k - 1) \o SubSeq(h, k + 1, Len(h))

\* how many times e occurs in h
Occurrences(h, e) == Cardinality({k \in 1..Len(h) : h[k] = e})

SameEntries(h1, h2) ==
    /\ Len(h1) = Len(h2)
    /\ \A k \in 1..Len(h1) : Occurrences(h1, h1[k]) = Occurrences(h2, h1[k])

\* positions (from 1) of the entries of h with the given id
Matches(h, patient_id) == {k \in 1..Len(h) : h[k].id = patient_id}

FirstMatch(h, patient_id) ==
    CHOOSE k \in Matches(h, patient_id) :
        \A j \in Matches(h, patient_id) : k <= j

\* C23: update_priority(id, p) returns True exactly when some entry has
\* that id; then the heap keeps its size, the first entry with that id in
\* array order is the one entry that is rewritten, it keeps its id and gets
\* priority p, and every other entry's (priority, id, payload) is the same
\* as before; when it returns False the heap array is unchanged.
C23_UpdateFrame ==
    [][heapOp'.op = "update" =>
       \A id \in HeapIds, p \in Priorities, d \in NewPayloads :
          update_priority(id, p, d) =>
             /\ heapOp'.found = (Matches(heap, id) # {})
             /\ ~heapOp'.found => heap' = heap
             /\ heapOp'.found =>
                   /\ Len(heap') = Len(heap)
                   /\ \E k \in 1..Len(heap') :
                         /\ heap'[k].id = id
                         /\ heap'[k].priority = p
                         /\ SameEntries(Without(heap', k),
                                        Without(heap, FirstMatch(heap, id)))
      ]_vars

\* an update has just found its id in a heap that holds that id twice, with
\* different priorities, beside an entry of the other id
C23_Witness ==
    /\ heapOp.op = "update" /\ heapOp.found
    /\ \E id \in HeapIds :
          /\ \E j, k \in Matches(heap, id) : heap[j].priority # heap[k].priority
          /\ \E other \in HeapIds \ {id} : Matches(heap, other) # {}

\* C24: update_priority replaces the payload of the matched entry whenever
\* new_clinical_data is given, an empty mapping included, and keeps the
\* payload it had only when new_clinical_data is omitted (None).
C24_PayloadReplaced ==
    [][heapOp'.op = "update" =>
       \A id \in HeapIds, p \in Priorities, d \in NewPayloads :
          (update_priority(id, p, d) /\ Matches(heap, id) # {}) =>
             \E k \in 1..Len(heap') :
                /\ heap'[k].id = id
                /\ heap'[k].priority = p
                /\ heap'[k].data = IF d = None
                                   THEN heap[FirstMatch(heap, id)].data
                                   ELSE d
                /\ SameEntries(Without(heap', k),
                               Without(heap, FirstMatch(heap, id)))
      ]_vars

----------------------------------------------------------------------------
(* Claims about calculate_priority_score, checked under SpecScore; scores   *)
(* are in tenths of a point                                                 *)

\* the systolic value written in each well-formed blood_pressure string
SystolicOf(bp) ==
    CASE bp = "89/60" -> 89
      [] bp = "90/60" -> 90
      [] bp = "180/95" -> 180
      [] bp = "181/95" -> 181

HasSystolic(vital_signs) ==
    /\ "blood_pressure" \in vital_signs.keys
    /\ vital_signs.blood_pressure \in {"89/60", "90/60", "180/95", "181/95"}

\* the penalty the specification gives for a set of vital signs
Penalty(vital_signs) ==
    (IF /\ "heart_rate" \in vital_signs.keys
        /\ (vital_signs.heart_rate < 50 \/ vital_signs.heart_rate > 120)
     THEN 100 ELSE 0)
    + (IF /\ HasSystolic(vital_signs)
          /\ (SystolicOf(vital_signs.blood_pressure) < 90
              \/ SystolicOf(vital_signs.blood_pressure) > 180)
       THEN 100 ELSE 0)
    + (IF /\ "oxygen_saturation" \in vital_signs.keys
          /\ vital_signs.oxygen_saturation < 92
       THEN 150 ELSE 0)

BaseOf(esi_level) == <<1000, 800, 600, 400, 200>>[esi_level]

ScoreArgs == triageOp.patient_data

ScoreReturned ==
    triageOp.op = "calculate_priority_score" /\ triageOp.err = None

\* C25: calculate_priority_score(esi, wait, vitals) returns
\* base(esi) + min(wait * 0.1, 20) + penalty, where base is 100, 80, 60, 40,
\* 20 for levels 1 to 5 and penalty adds 10 for a heart rate below 50 or
\* above 120, 10 for a systolic pressure below 90 or above 180 and 15 for
\* an oxygen saturation below 92; the penalty is at most 35 and the total is
\* not capped at 100.
C25_ScoreFormula ==
    ScoreReturned =>
        /\ triageOp.score =
              BaseOf(ScoreArgs.esi_level)
              + (IF ScoreArgs.waiting_time < 200 THEN ScoreArgs.waiting_time
                 ELSE 200)
              + Penalty(ScoreArgs.vital_signs)
        /\ Penalty(ScoreArgs.vital_signs) <= 350
        /\ triageOp.score <= 1550

\* level 1, a wait past the cap and all three vital signs abnormal: 155 points
C25_Witness ==
    /\ ScoreReturned
    /\ ScoreArgs.esi_level = 1
    /\ Penalty(ScoreArgs.vital_signs) = 350
    /\ triageOp.score = 1550

\* the score of the same patient after another wait
ScoreAfter(waiting_time) ==
    calculate_priority_score(ScoreArgs.esi_level, waiting_time,
                             ScoreArgs.vital_signs).value

\* C26: with the ESI level and the vital signs fixed the score never
\* decreases as waiting_time grows from 0, and the part of it that comes
\* from waiting is exactly 20 points for every waiting_time >= 200 and
\* strictly less for every waiting_time < 200.
C26_WaitMonotone ==
    ScoreReturned =>
        /\ \A later \in Waits :
              ScoreArgs.waiting_time <= later =>
                 triageOp.score <= ScoreAfter(later)
        /\ ScoreArgs.waiting_time >= 200 =>
              triageOp.score - ScoreAfter(0) = 200
        /\ ScoreArgs.waiting_time < 200 =>
              triageOp.score - ScoreAfter(0) < 200

\* a score computed for a wait beyond 200 minutes
C26_Witness ==
    /\ ScoreReturned
    /\ ScoreArgs.waiting_time > 200
    /\ triageOp.score - ScoreAfter(0) = 200

----------------------------------------------------------------------------
(* Claims about the triage heap of TriageService, checked under SpecTriage  *)

\* C27: get_next_patient returns None exactly when no patient is queued;
\* otherwise it removes one entry and returns it, and no entry that was
\* added and not yet returned has a greater score. add_patient adds one
\* entry, so the heap size is the number of add_patient calls minus the
\* number of results that are not None.
C27_NextPatient ==
    [][/\ triageOp'.op = "get_next_patient" =>
             /\ (triageOp'.ret = TriageNone) = (triage_heap = <<>>)
             /\ triage_heap = <<>> => triage_heap' = <<>>
             /\ triage_heap # <<>> =>
                   /\ Len(triage_heap') = Len(triage_heap) - 1
                   /\ \E k \in 1..Len(triage_heap) :
                         /\ triage_heap[k] = triageOp'.ret
                         /\ SameEntries(triage_heap', Without(triage_heap, k))
                   /\ \A k \in 1..Len(triage_heap) :
                         triage_heap[k].priority <= triageOp'.ret.priority
       /\ (triageOp'.op = "add_patient" /\ triageOp'.err = None) =>
             /\ Len(triage_heap') = Len(triage_heap) + 1
             /\ \E k \in 1..Len(triage_heap') :
                   /\ triage_heap'[k].id = triageOp'.id
                   /\ triage_heap'[k].priority = triageOp'.score
                   /\ SameEntries(Without(triage_heap', k), triage_heap)
      ]_vars

\* a patient has just been returned while two others stay queued, one of
\* them with the same score and one with a lower score
C27_Witness ==
    /\ triageOp.op = "get_next_patient" /\ triageOp.ret # TriageNone
    /\ Len(triage_heap) = 2
    /\ \E j, k \in 1..2 :
          /\ triage_heap[j].priority = triageOp.ret.priority
          /\ triage_heap[k].priority < triageOp.ret.priority

\* the k-th fallback id
NumberedId(k) ==
    <<"P000001", "P000002", "P000003", "P000004", "P000005", "P000006",
      "P000007", "P000008", "P000009">>[k]

\* C30: add_patient called without an external id returns P000001, P000002,
\* and so on: the k-th such call of one service returns the id with number
\* k, which no earlier call returned, and a call with an external id returns
\* that id and leaves the counter alone.
C30_FallbackIds ==
    [][/\ (triageOp'.op = "add_patient" /\ NoId(triageOp'.patient_data.id)) =>
             /\ _local_counter' = _local_counter + 1
             /\ triageOp'.id = NumberedId(_local_counter')
             /\ \A k \in 1.._local_counter : triageOp'.id # NumberedId(k)
       /\ (triageOp'.op = "add_patient" /\ ~NoId(triageOp'.patient_data.id)) =>
             /\ _local_counter' = _local_counter
             /\ triageOp'.id = triageOp'.patient_data.id
       /\ triageOp'.op = "get_next_patient" => _local_counter' = _local_counter
      ]_vars

\* the second fallback id has just been given out, after a patient with an
\* external id was added
C30_Witness ==
    /\ triageOp.op = "add_patient" /\ NoId(triageOp.patient_data.id)
    /\ triageOp.id = "P000002" /\ _local_counter = 2
    /\ \E k \in 1..Len(triage_heap) : triage_heap[k].id = "p1"

----------------------------------------------------------------------------
(* Claims about peek and the order of dequeue, checked under SpecQueue      *)

\* position (from 1) of the first entry of q, in queue order, among those
\* with the greatest priority
FirstHighest(q) ==
    CHOOSE i \in 1..Len(q) :
        /\ \A j \in 1..Len(q) : q[j].priority <= q[i].priority
        /\ \A j \in 1..(i - 1) : q[j].priority < q[i].priority

ExpectedNext(q) == IF q = <<>> THEN None ELSE q[FirstHighest(q)].item

\* C28: peek never changes the queue; it returns the item of the first
\* entry, in queue order, among those with the greatest priority, which is
\* what a dequeue called right after it returns; on an empty queue both
\* return None.
C28_PeekAgrees ==
    [][/\ labOp'.op = "peek" =>
             /\ labQueue' = labQueue
             /\ labOp'.ret = ExpectedNext(labQueue)
       /\ (labOp.op = "peek" /\ labOp'.op = "dequeue") =>
             labOp'.ret = labOp.ret
       /\ (labOp'.op \in {"peek", "dequeue"} /\ labQueue = <<>>) =>
             labOp'.ret = None
      ]_vars

\* a peek on a queue whose two highest entries tie, behind a lower entry
C28_Witness ==
    /\ labOp.op = "peek"
    /\ Len(labQueue) = 3
    /\ labQueue[1].priority < labQueue[2].priority
    /\ labQueue[2].priority = labQueue[3].priority
    /\ labQueue[2].item # labQueue[3].item
    /\ labOp.ret = labQueue[2].item

\* the items that n dequeue calls in a row return, starting from q
RECURSIVE Drain(_, _)
Drain(q, n) ==
    IF n = 0 THEN <<>>
    ELSE <<QDequeue(q).ret>> \o Drain(QDequeue(q).queue, n - 1)

\* C29: a queue drained by as many dequeue calls as it has entries gives
\* back every entry once, and of two entries with the same priority the
\* one enqueued first comes out first.
C29_FifoWithinPriority ==
    LET q == labQueue
        drained == Drain(q, Len(q))
    IN \E position \in Permutations(1..Len(q)) :
          /\ \A i \in 1..Len(q) : drained[position[i]] = q[i].item
          /\ \A i, j \in 1..Len(q) :
                (i < j /\ q[i].priority = q[j].priority) =>
                   position[i] < position[j]

----------------------------------------------------------------------------
(* Further claims about WaitingRoomService, checked under SpecWR            *)

\* C31: in every reachable state the value of get_waiting_count (the
\* total_waiting of the status) equals the number of patients in the
\* membership cache.
C31_CountMatchesCache ==
    get_waiting_count(wrQueue) = Cardinality(CacheIds(wrCache))

\* C32: whenever the waiting room is not empty, the patient at position 1,
\* who is also the next_patient of the status, is the patient that
\* peek_next_patient returns and that the next get_next_patient returns.
C32_PositionOneIsNext ==
    wrCache # <<>> =>
        \A patient_id \in CacheIds(wrCache) :
            _get_position_in_queue(wrCache, patient_id) = 1 =>
               /\ status_next_patient(wrQueue, wrCache) = patient_id
               /\ peek_next_patient(wrQueue) = patient_id
               /\ QDequeue(wrQueue).ret = patient_id

----------------------------------------------------------------------------
(* Further claims about TreatmentHistoryService, checked under SpecTH       *)

\* the rows of treatment_history that belong to patient_id, by position
RowsOfPatient(rows, patient_id) ==
    {i \in 1..Len(rows) : rows[i].patient_id = patient_id}

\* C33: whatever add_action, undo_last_action, clear_history calls and cold
\* starts came before, an undo_last_action that succeeds marks undone the
\* action of that patient recorded latest among those not yet undone, and
\* that action only; so no action is marked undone twice.
C33_UndoMarksLatestActive ==
    [][(thOp'.op = "undo" /\ thOp'.ret # NoAction) =>
          \E i \in RowsOfPatient(treatments, thOp'.pid) :
             /\ treatments[i].id = thOp'.ret
             /\ treatments[i].is_undone = "false"
             /\ \A j \in RowsOfPatient(treatments, thOp'.pid) :
                   j > i => treatments[j].is_undone = "true"
             /\ treatments' = [treatments EXCEPT ![i].is_undone = "true"]
      ]_vars

\* an undo has just succeeded on a stack that held the latest action only:
\* an older action of the same patient is still not undone and is on no stack
C33_Witness ==
    /\ thOp.op = "undo" /\ thOp.ret # NoAction
    /\ history_stacks[thOp.pid].items = <<>>
    /\ \E i \in RowsOfPatient(treatments, thOp.pid) :
          /\ treatments[i].is_undone = "false"
          /\ treatments[i].id < thOp.ret

\* C34: add_action and undo_last_action for a patient leave the stack and
\* the records of every other patient as they were.
C34_OtherPatientsUntouched ==
    [][thOp'.op \in {"add", "undo"} =>
          \A q \in TreatedIds \ {thOp'.pid} :
             /\ history_stacks'[q] = history_stacks[q]
             /\ RowsOfPatient(treatments', q) = RowsOfPatient(treatments, q)
             /\ \A i \in RowsOfPatient(treatments, q) :
                   treatments'[i] = treatments[i]
      ]_vars

\* an undo has just succeeded for one patient while another patient has
\* recorded actions and one of them on the stack
C34_Witness ==
    /\ thOp.op = "undo" /\ thOp.ret # NoAction
    /\ \E q \in TreatedIds \ {thOp.pid} :
          /\ history_stacks[q].items # <<>>
          /\ RowsOfPatient(treatments, q) # {}

----------------------------------------------------------------------------
(* The entries of MaxHeap as a multiset, checked under SpecEntries          *)

\* C35: push adds one entry to the multiset of entries in the heap and
\* changes no other; a pop that returns an entry removes one occurrence of
\* exactly that entry, and a pop that returns None finds and leaves the heap
\* empty; update_priority keeps the size and rewrites at most one entry,
\* which keeps its id.  So the heap holds the entries pushed and not yet
\* popped, none lost or duplicated, and size() is pushes minus the pops that
\* returned an entry.
C35_EntriesConserved ==
    [][/\ heapOp'.op = "push" =>
             /\ Len(heap') = Len(heap) + 1
             /\ \E k \in 1..Len(heap') : SameEntries(Without(heap', k), heap)
       /\ (heapOp'.op = "pop" /\ heapOp'.ret # NoEntry) =>
             /\ Len(heap') = Len(heap) - 1
             /\ \E k \in 1..Len(heap) :
                   /\ heap[k] = heapOp'.ret
                   /\ SameEntries(Without(heap, k), heap')
       /\ (heapOp'.op = "pop" /\ heapOp'.ret = NoEntry) =>
             heap = <<>> /\ heap' = <<>>
       /\ heapOp'.op = "update" =>
             /\ Len(heap') = Len(heap)
             /\ \/ heap' = heap
                \/ \E j \in 1..Len(heap), k \in 1..Len(heap') :
                      /\ heap'[k].id = heap[j].id
                      /\ SameEntries(Without(heap', k), Without(heap, j))
      ]_vars

\* a pop has just returned one of two equal entries out of a full heap: the
\* other one and an entry of another patient are still there
C35_Witness ==
    /\ heapOp.op = "pop" /\ heapOp.ret # NoEntry
    /\ Len(heap) = MaxHeapLen - 1
    /\ Occurrences(heap, heapOp.ret) = 1
    /\ \E k \in 1..Len(heap) : heap[k].id # heapOp.ret.id

----------------------------------------------------------------------------
(* Claims about discharged patients, checked under SpecAdmission            *)

\* C36: a patient whose status is discharged keeps that status whatever is
\* called next, and GET /patients/triage/next never returns such a patient.
C36_DischargedIsFinal ==
    [][/\ \A p \in PatientIds :
             (PatientExists(p) /\ patients[p].status = "discharged") =>
                patients'[p].status = "discharged"
       /\ (erOp'.op = "triage_next" /\ erOp'.pid # None) =>
             erOp'.prev # "discharged"
      ]_vars

----------------------------------------------------------------------------
(* Claims about rooms, checked under SpecER                                 *)

\* C37: when a discharge has succeeded, no room has the discharged patient
\* as its current_patient_id, whatever assign_room and resources/allocate
\* calls came before.
C37_DischargeFreesRooms ==
    (erOp.op = "discharge" /\ erOp.code = 200) =>
        \A r \in RoomIds : rooms[r].current_patient_id # erOp.pid

\* the room a successful assign_room or resources/allocate was called for:
\* both store it as the patient's assigned_room_id
TargetRoom(patient_row) == patient_row.assigned_room_id

\* C38: an assign_room or resources/allocate call for patient q that
\* succeeds was made for a room whose current_patient_id was empty or q, and
\* changes no other room; one that fails changes no room and no patient.  So
\* a room that p holds is never handed to q # p.  After every call a room
\* with a current_patient_id has status occupied.
C38_RoomNotHandedOver ==
    [][/\ (erOp'.op \in {"assign_room", "allocate"} /\ erOp'.code = 200) =>
             LET q == erOp'.pid
                 r == TargetRoom(patients'[q])
             IN /\ rooms[r].current_patient_id \in {None, q}
                /\ rooms'[r].current_patient_id = q
                /\ \A other \in RoomIds \ {r} : rooms'[other] = rooms[other]
                /\ \A p \in PatientIds \ {q} : patients'[p] = patients[p]
       /\ (erOp'.op \in {"assign_room", "allocate"} /\ erOp'.code # 200) =>
             rooms' = rooms /\ patients' = patients
       /\ \A r \in RoomIds :
             rooms'[r].current_patient_id # None => rooms'[r].status = "occupied"
      ]_vars

\* resources/allocate has just been refused for a waiting patient while
\* another patient holds a room and the other room is being cleaned
C38_Witness ==
    /\ erOp.op = "allocate" /\ erOp.code = 400
    /\ PatientExists(erOp.pid) /\ patients[erOp.pid].status = "waiting"
    /\ \E r \in RoomIds :
          /\ rooms[r].current_patient_id \notin {None, erOp.pid}
          /\ \E other \in RoomIds \ {r} : rooms[other].status = "cleaning"

----------------------------------------------------------------------------
(* Claims about the waiting-room handlers, checked under                    *)
(* SpecWaitingRoomRoutes                                                    *)

\* C39: DELETE /waiting-room/remove/{id} and GET /waiting-room/estimate/{id}
\* for a patient who is not in the waiting room answer 404, and change
\* neither the queue nor the cache.
C39_NotFoundIs404 ==
    [][(/\ wrOp'.op \in {"DELETE remove", "GET estimate"}
        /\ wrOp'.pid \notin CacheIds(wrCache))
       => /\ wrOp'.ret = "404"
          /\ wrQueue' = wrQueue
          /\ wrCache' = wrCache]_vars

----------------------------------------------------------------------------
(* Claims about HashTable, checked under SpecHash                           *)

\* C40: after insert(key, value) the key is in the table whatever the value,
\* after delete(key) it is not, no other key's membership changes, and
\* len(table) is the number of distinct keys stored.
C40_LenAndMembership ==
    [][/\ hashOp'.op = "insert" =>
             \A key \in HashKeys :
                Contains(table', key) = (key = hashOp'.key \/ Contains(table, key))
       /\ hashOp'.op = "delete" =>
             \A key \in HashKeys :
                Contains(table', key) = (key # hashOp'.key /\ Contains(table, key))
       /\ HashLen(count') = Cardinality(StoredKeys(table'))
      ]_vars

====
